---- MODULE Spec2Model ----
(***************************************************************************)
(* Records browser of the admin dashboard (UserRecords.tsx): the held      *)
(* record list, the filter / sort criteria and the derived view            *)
(* filteredAndSortedRecords that every render recomputes.                  *)
(*                                                                         *)
(* Strings are sequences of one-character strings.  Date-input texts are   *)
(* sequences of integers: <<>> is the empty text, <<d>> is the text        *)
(* "YYYY-MM-DD" of day d, any longer sequence is text that is no date.     *)
(* Instants are counted in ticks, TicksPerDay ticks to a day, in UTC.      *)
(***************************************************************************)
EXTENDS Integers, Sequences, FiniteSets, TLC

\* ------------------------------------------------------------------ bounds
MaxRecords == 3
MaxDay == 3
TicksPerDay == 2
MaxTz == 1
\* requests and change events in flight at once
MaxLoads == 2

\* ----------------------------------------------------------------- strings
LowerCase ==
  <<"a","b","c","d","e","f","g","h","i","j","k","l","m",
    "n","o","p","q","r","s","t","u","v","w","x","y","z">>

UpperCase ==
  <<"A","B","C","D","E","F","G","H","I","J","K","L","M",
    "N","O","P","Q","R","S","T","U","V","W","X","Y","Z">>

\* position of c in seq, 0 when absent
IndexIn(seq, c) ==
  IF \E i \in 1..Len(seq) : seq[i] = c
  THEN CHOOSE i \in 1..Len(seq) : seq[i] = c
  ELSE 0

\* the characters that occur in the texts of the model
Digits == <<"0","1","2","3","4","5","6","7","8","9">>

Chars ==
  { UpperCase[i] : i \in 1..Len(UpperCase) } \cup
  { LowerCase[i] : i \in 1..Len(LowerCase) } \cup
  { Digits[i] : i \in 1..Len(Digits) } \cup {" ", "-"}

isUpperTable == [c \in Chars |-> IndexIn(UpperCase, c) > 0]

isUpper(c) == isUpperTable[c]

toLowerCaseTable ==
  [c \in Chars |-> IF IndexIn(UpperCase, c) > 0
                   THEN LowerCase[IndexIn(UpperCase, c)] ELSE c]

toLowerCaseChar(c) == toLowerCaseTable[c]

RECURSIVE toLowerCase(_)
toLowerCase(s) ==
  IF s = <<>> THEN <<>>
  ELSE <<toLowerCaseChar(Head(s))>> \o toLowerCase(Tail(s))

\* String.prototype.includes: t occurs in s as a contiguous run
includes(s, t) ==
  \E i \in 0..(Len(s) - Len(t)) : SubSeq(s, i + 1, i + Len(t)) = t

RECURSIVE trimStart(_)
trimStart(s) ==
  IF s # <<>> /\ Head(s) = " " THEN trimStart(Tail(s)) ELSE s

RECURSIVE trimEnd(_)
trimEnd(s) ==
  IF s # <<>> /\ s[Len(s)] = " " THEN trimEnd(SubSeq(s, 1, Len(s) - 1)) ELSE s

trim(s) == trimEnd(trimStart(s))

\* the value null of a nullable column; no string, since strings hold
\* one-character elements only
null == <<"null">>

\* JavaScript's a || b on nullable strings: null and '' are falsy
OrElse(a, b) == IF a = null \/ a = <<>> THEN b ELSE a

\* String.prototype.localeCompare under the root collation: space, hyphen and
\* digits sort before the letters, letters compare without case first, and
\* on a tie lower case sorts before upper case.
PrimaryOrder == <<" ", "-">> \o Digits \o LowerCase

primaryWeightTable ==
  [c \in Chars |-> IndexIn(PrimaryOrder, toLowerCaseTable[c])]

RECURSIVE primaryWeights(_)
primaryWeights(s) ==
  IF s = <<>> THEN <<>>
  ELSE <<primaryWeightTable[Head(s)]>> \o primaryWeights(Tail(s))

RECURSIVE caseWeights(_)
caseWeights(s) ==
  IF s = <<>> THEN <<>>
  ELSE <<IF isUpper(Head(s)) THEN 1 ELSE 0>> \o caseWeights(Tail(s))

RECURSIVE lexCompare(_, _)
lexCompare(x, y) ==
  IF x = <<>> THEN (IF y = <<>> THEN 0 ELSE -1)
  ELSE IF y = <<>> THEN 1
  ELSE IF Head(x) < Head(y) THEN -1
  ELSE IF Head(x) > Head(y) THEN 1
  ELSE lexCompare(Tail(x), Tail(y))

localeCompare(a, b) ==
  LET p == lexCompare(primaryWeights(a), primaryWeights(b))
  IN  IF p # 0 THEN p ELSE lexCompare(caseWeights(a), caseWeights(b))

\* ------------------------------------------------------------------- dates
\* a Date object: an instant, or Invalid Date
InvalidDate == [valid |-> FALSE, time |-> 0]

\* new Date(record.submission_date): the record's instant
DateOfTimestamp(ts) == [valid |-> TRUE, time |-> ts]

\* new Date(text) for the text of a date input: a date-only text is read as
\* midnight UTC of that day, any other text gives Invalid Date
DateOfInput(text) ==
  IF Len(text) = 1 THEN [valid |-> TRUE, time |-> text[1] * TicksPerDay]
  ELSE InvalidDate

\* Date.prototype.toDateString: the calendar day in the browser's time zone,
\* <<>> standing for the text "Invalid Date"
toDateString(d, zone) ==
  IF d.valid THEN <<(d.time + zone) \div TicksPerDay>> ELSE <<>>

\* a >= b and a <= b on Date objects: false as soon as either side is NaN
\* (DateGe_nanAsZero: Invalid Date taken for instant 0)
DateGe_nanAsZero(a, b) == a.time >= b.time

DateGe(a, b) == a.valid /\ b.valid /\ a.time >= b.time

\* (DateLe_strict: the end bound excluded)
DateLe_strict(a, b) == a.valid /\ b.valid /\ a.time < b.time

DateLe(a, b) == a.valid /\ b.valid /\ a.time <= b.time

\* ----------------------------------------------------------------- records
LPU_STUDENT == <<"L","P","U"," ","S","t","u","d","e","n","t">>
NON_LPU_STUDENT == <<"N","o","n","-","L","P","U"," ","S","t","u","d","e","n","t">>
ALL == <<"a","l","l">>

Main == <<"M","a","i","n">>
Cavite == <<"C","a","v","i","t","e">>

\* rows of thesis_submissions as the public form writes them
Alice ==
  [id |-> 1, full_name |-> <<"A","l","i","c","e">>, user_type |-> LPU_STUDENT,
   student_number |-> <<"s","1">>, school |-> null, campus |-> Main,
   program |-> <<"C","S">>, thesis_title |-> <<"A"," ","S","t","u","d","y">>,
   submission_date |-> 2 * TicksPerDay]

Bob ==
  [id |-> 2, full_name |-> <<"B","o","b">>, user_type |-> NON_LPU_STUDENT,
   student_number |-> null, school |-> <<"M","i","t">>, campus |-> Main,
   program |-> null,
   thesis_title |-> <<"O","t","h","e","r"," ","S","t","u","d","y">>,
   submission_date |-> 2 * TicksPerDay + 1]

Zed ==
  [id |-> 3, full_name |-> <<"Z","e","d">>, user_type |-> LPU_STUDENT,
   student_number |-> <<"s","2">>, school |-> null, campus |-> Cavite,
   program |-> <<"I","T">>, thesis_title |-> <<"a"," ","s","t","u","d","y">>,
   submission_date |-> 3 * TicksPerDay + 1]

Amy ==
  [id |-> 4, full_name |-> <<"A","m","y">>, user_type |-> NON_LPU_STUDENT,
   student_number |-> null, school |-> <<"B","o","b","s">>, campus |-> Cavite,
   program |-> null, thesis_title |-> <<"Z","e","t","a">>,
   submission_date |-> TicksPerDay + 1]

\* the table ordered by submission_date descending, as fetchRecords asks
TableDesc == <<Zed, Bob, Alice, Amy>>

RECURSIVE Keep(_, _)
Keep(s, ids) ==
  IF s = <<>> THEN <<>>
  ELSE IF Head(s).id \in ids THEN <<Head(s)>> \o Keep(Tail(s), ids)
  ELSE Keep(Tail(s), ids)

\* what a load can deliver: any MaxRecords rows of the table, in that order
LoadedLists ==
  { Keep(TableDesc, ids) :
      ids \in { S \in SUBSET {1, 2, 3, 4} : Cardinality(S) <= MaxRecords } }

\* ------------------------------------------------- the filter predicates
\* (matchesSearch_noSchool: the all-fields scan forgets the school)
matchesSearch_noSchool(record, term, field) ==
  IF trim(term) = <<>> THEN TRUE
  ELSE LET searchLower == toLowerCase(term)
       IN  CASE field = "name" ->
                  includes(toLowerCase(record.full_name), searchLower)
             [] field = "id_school" ->
                  includes(toLowerCase(OrElse(record.student_number,
                                              OrElse(record.school, <<>>))),
                           searchLower)
             [] field = "program" ->
                  includes(toLowerCase(OrElse(record.program, <<>>)), searchLower)
             [] field = "thesis_title" ->
                  includes(toLowerCase(record.thesis_title), searchLower)
             [] OTHER ->
                  \/ includes(toLowerCase(record.full_name), searchLower)
                  \/ includes(toLowerCase(record.thesis_title), searchLower)
                  \/ includes(toLowerCase(OrElse(record.student_number, <<>>)), searchLower)
                  \/ includes(toLowerCase(OrElse(record.program, <<>>)), searchLower)

matchesSearch(record, term, field) ==
  IF trim(term) = <<>> THEN TRUE
  ELSE LET searchLower == toLowerCase(term)
       IN  CASE field = "name" ->
                  includes(toLowerCase(record.full_name), searchLower)
             [] field = "id_school" ->
                  includes(toLowerCase(OrElse(record.student_number,
                                              OrElse(record.school, <<>>))),
                           searchLower)
             [] field = "program" ->
                  includes(toLowerCase(OrElse(record.program, <<>>)), searchLower)
             [] field = "thesis_title" ->
                  includes(toLowerCase(record.thesis_title), searchLower)
             [] OTHER ->
                  \/ includes(toLowerCase(record.full_name), searchLower)
                  \/ includes(toLowerCase(record.thesis_title), searchLower)
                  \/ includes(toLowerCase(OrElse(record.student_number, <<>>)), searchLower)
                  \/ includes(toLowerCase(OrElse(record.school, <<>>)), searchLower)
                  \/ includes(toLowerCase(OrElse(record.program, <<>>)), searchLower)

\* (matchesUserType_noAll: 'all' is taken for a category like the others)
matchesUserType_noAll(record, type) ==
  \/ (type = "lpu" /\ record.user_type = LPU_STUDENT)
  \/ (type = "non-lpu" /\ record.user_type = NON_LPU_STUDENT)

matchesUserType(record, type) ==
  \/ type = "all"
  \/ (type = "lpu" /\ record.user_type = LPU_STUDENT)
  \/ (type = "non-lpu" /\ record.user_type = NON_LPU_STUDENT)

matchesCampus(record, campus) ==
  campus = ALL \/ record.campus = campus

\* (matchesDate_rangeFirst: the range branch is tried before the exact date)
matchesDate_rangeFirst(record, exact, range, zone) ==
  LET recordDate == DateOfTimestamp(record.submission_date)
  IN  IF range.start # <<>> \/ range.end # <<>>
      THEN IF range.start # <<>> /\ range.end # <<>>
           THEN /\ DateGe(recordDate, DateOfInput(range.start))
                /\ DateLe(recordDate, DateOfInput(range.end))
           ELSE IF range.start # <<>>
           THEN DateGe(recordDate, DateOfInput(range.start))
           ELSE DateLe(recordDate, DateOfInput(range.end))
      ELSE IF exact # <<>>
      THEN toDateString(recordDate, zone) = toDateString(DateOfInput(exact), zone)
      ELSE TRUE

matchesDate(record, exact, range, zone) ==
  LET recordDate == DateOfTimestamp(record.submission_date)
  IN  IF exact # <<>>
      THEN toDateString(recordDate, zone) = toDateString(DateOfInput(exact), zone)
      ELSE IF range.start # <<>> \/ range.end # <<>>
      THEN IF range.start # <<>> /\ range.end # <<>>
           THEN /\ DateGe(recordDate, DateOfInput(range.start))
                /\ DateLe(recordDate, DateOfInput(range.end))
           ELSE IF range.start # <<>>
           THEN DateGe(recordDate, DateOfInput(range.start))
           ELSE DateLe(recordDate, DateOfInput(range.end))
      ELSE TRUE

\* (keeps_campusOrDate: the last two predicates joined by || )
keeps_campusOrDate(record, c, zone) ==
  /\ matchesSearch(record, c.searchTerm, c.searchField)
  /\ matchesUserType(record, c.filterType)
  /\ \/ matchesCampus(record, c.campusFilter)
     \/ matchesDate(record, c.dateFilter, c.dateRange, zone)

\* the callback of records.filter
keeps(record, c, zone) ==
  /\ matchesSearch(record, c.searchTerm, c.searchField)
  /\ matchesUserType(record, c.filterType)
  /\ matchesCampus(record, c.campusFilter)
  /\ matchesDate(record, c.dateFilter, c.dateRange, zone)

\* Array.prototype.filter: a new array of the kept elements, in order
RECURSIVE filter(_, _, _)
filter(arr, c, zone) ==
  IF arr = <<>> THEN <<>>
  ELSE IF keeps(Head(arr), c, zone)
  THEN <<Head(arr)>> \o filter(Tail(arr), c, zone)
  ELSE filter(Tail(arr), c, zone)

\* ------------------------------------------------------------------ sorting
\* (compare_ignoresOrder: the direction is dropped)
compare_ignoresOrder(a, b, by, order) ==
  CASE by = "submission_date" -> a.submission_date - b.submission_date
    [] by = "full_name" -> localeCompare(a.full_name, b.full_name)
    [] by = "campus" -> localeCompare(a.campus, b.campus)
    [] by = "thesis_title" -> localeCompare(a.thesis_title, b.thesis_title)
    [] by = "user_type" -> localeCompare(a.user_type, b.user_type)
    [] OTHER -> a.submission_date - b.submission_date

\* the callback of .sort
compare(a, b, by, order) ==
  LET comparison ==
        CASE by = "submission_date" -> a.submission_date - b.submission_date
          [] by = "full_name" -> localeCompare(a.full_name, b.full_name)
          [] by = "campus" -> localeCompare(a.campus, b.campus)
          [] by = "thesis_title" -> localeCompare(a.thesis_title, b.thesis_title)
          [] by = "user_type" -> localeCompare(a.user_type, b.user_type)
          [] OTHER -> a.submission_date - b.submission_date
  IN  IF order = "asc" THEN comparison ELSE -comparison

\* Array.prototype.sort is stable: x goes behind every element that does
\* not compare greater than it
RECURSIVE insert(_, _, _, _)
insert(arr, x, by, order) ==
  IF arr = <<>> THEN <<x>>
  ELSE IF compare(arr[Len(arr)], x, by, order) > 0
  THEN Append(insert(SubSeq(arr, 1, Len(arr) - 1), x, by, order), arr[Len(arr)])
  ELSE Append(arr, x)

RECURSIVE sort(_, _, _)
sort(arr, by, order) ==
  IF arr = <<>> THEN <<>>
  ELSE insert(sort(SubSeq(arr, 1, Len(arr) - 1), by, order), arr[Len(arr)], by, order)

\* (computeView_sortsHeld: records.sort(...) called on the held array, then
\* filtered)
computeView_sortsHeld(held, c, zone) ==
  [records |-> sort(held, c.sortBy, c.sortOrder),
   view |-> filter(sort(held, c.sortBy, c.sortOrder), c, zone)]

\* one evaluation of records.filter(...).sort(...): filter allocates the
\* array that sort then orders in place, so the held array comes back as it
\* went in
computeView(held, c, zone) ==
  [records |-> held,
   view |-> sort(filter(held, c, zone), c.sortBy, c.sortOrder)]

uniqueCampuses(held) == { held[i].campus : i \in 1..Len(held) }

\* ------------------------------------------------------------------- state
VARIABLES records, tz, searchTerm, searchField, filterType, campusFilter,
          dateFilter, dateRange, sortBy, sortOrder, filteredAndSortedRecords,
          mounted, loading, userRole, table, loads, notifications,
          subscriptions, toast, dialog, deletes, download,
          usersMounted, usersLoading, users, systemUsers, userCalls,
          user, dashLoading, profile, roleCall,
          isSubmitting, inserts,
          activeTab, tabEffect,
          userType, formData, showSuccess, resetTimers,
          showAddUser, newUser, authUsers, addCall

\* the records browser: useState of UserRecords and the derived view
browserVars ==
  <<records, tz, searchTerm, searchField, filterType, campusFilter,
    dateFilter, dateRange, sortBy, sortOrder, filteredAndSortedRecords>>

\* the rest of the page and the store behind it:
\*   mounted        a UserRecords instance is on the page
\*   loading        its loading flag
\*   userRole       the role the dashboard hands it
\*   table          the ids of the rows of thesis_submissions
\*   loads          the fetchRecords calls that wait at their await, oldest first
\*   notifications  change events the channel has not yet delivered
\*   subscriptions  channels the client holds for the instance
\*   toast          the latest toast
\*   dialog         the confirm() dialog that blocks the page, <<>> when none
\*   deletes        the delete requests that wait at their await
\*   download       the latest file handed to the browser, <<>> when none
pageVars ==
  <<mounted, loading, userRole, table, loads, notifications, subscriptions,
    toast, dialog, deletes>>

\* the System Users panel and the system_users table:
\*   usersMounted   a SystemUsers instance is on the page
\*   usersLoading   its loading flag
\*   users          the ids of the rows it holds, by created_at descending
\*   systemUsers    the rows of system_users
\*   userCalls      its fetchUsers and delete calls that wait at their await
usersVars == <<usersMounted, usersLoading, users, systemUsers, userCalls>>

\* the dashboard's role lookup:
\*   user           the signed-in user, "null" when none
\*   dashLoading    the loading flag of AdminDashboard
\*   profile        the role in the user's row of profiles, "none" without a row
\*   roleCall       the fetchUserRole call that waits at an await, <<>> when none
roleVars == <<user, dashLoading, profile, roleCall>>

\* the public submission form:
\*   isSubmitting   its submitting flag
\*   inserts        the handleSubmit calls that wait at their await
formVars == <<isSubmitting, inserts>>

\* the tabs of the dashboard:
\*   activeTab      the selected tab
\*   tabEffect      the redirect effect waits to run after a commit
tabVars == <<activeTab, tabEffect>>

\* the fields of the submission form:
\*   userType       the selected category, 'lpu' or 'non-lpu'
\*   formData       the text of the six inputs
\*   showSuccess    the success modal is shown
\*   resetTimers    the setTimeout callbacks that wait to reset the form
fieldVars == <<userType, formData, showSuccess, resetTimers>>

\* the Add User form of the System Users panel and the auth store:
\*   showAddUser    the form is open
\*   newUser        its input
\*   authUsers      the ids of the auth identities
\*   addCall        the handleAddUser call that waits at an await, <<>> when none
addVars == <<showAddUser, newUser, authUsers, addCall>>

restVars == <<usersVars, roleVars, formVars, tabVars, fieldVars, addVars>>

vars == <<browserVars, pageVars, restVars, download>>

\* rows of system_users for the signed-in user "u"
AdminRow == [id |-> 1, user_id |-> "u", role |-> "Admin", status |-> "Active"]
ReaderRow == [id |-> 2, user_id |-> "u", role |-> "Reader", status |-> "Active"]
FormerAdminRow == [id |-> 3, user_id |-> "u", role |-> "Admin", status |-> "Inactive"]

criteria ==
  [searchTerm |-> searchTerm, searchField |-> searchField,
   filterType |-> filterType, campusFilter |-> campusFilter,
   dateFilter |-> dateFilter, dateRange |-> dateRange,
   sortBy |-> sortBy, sortOrder |-> sortOrder]

\* the render that follows every state change
Render ==
  LET pass == computeView(records, criteria', tz)
  IN  /\ records' = pass.records
      /\ filteredAndSortedRecords' = pass.view
      /\ tz' = tz
      /\ UNCHANGED <<pageVars, restVars, download>>

Ids(held) == { held[i].id : i \in 1..Len(held) }

\* useState defaults of SubmissionForm and of the Add User form
EmptyForm ==
  [fullName |-> <<>>, studentNumber |-> <<>>, school |-> <<>>, campus |-> <<>>,
   program |-> <<>>, thesisTitle |-> <<>>]

EmptyUser == [name |-> <<>>, email |-> <<>>, role |-> "Reader", status |-> "Active"]

\* the System Users panel is off the page and the forms are idle
Idle ==
  /\ usersMounted = FALSE
  /\ usersLoading = TRUE
  /\ users = <<>>
  /\ userCalls = <<>>
  /\ isSubmitting = FALSE
  /\ inserts = <<>>
  /\ showSuccess = FALSE
  /\ resetTimers = 0
  /\ showAddUser = FALSE
  /\ newUser = EmptyUser
  /\ authUsers = {"u"}
  /\ addCall = <<>>

\* the rest of the application while the records browser is looked at: the
\* role lookup has answered `role` from the user's row, the System Users
\* panel is off the page, the form is idle
Elsewhere(role) ==
  /\ Idle
  /\ userType = "lpu"
  /\ formData = EmptyForm
  /\ systemUsers = IF role = "Admin" THEN {AdminRow} ELSE {ReaderRow}
  /\ user = "u"
  /\ dashLoading = FALSE
  /\ profile = "none"
  /\ roleCall = <<>>

\* the page at rest around a mounted browser: nothing in flight, one channel
AtRest(held, role) ==
  /\ mounted = TRUE
  /\ loading = FALSE
  /\ userRole = role
  /\ table = Ids(held)
  /\ loads = <<>>
  /\ notifications = 0
  /\ subscriptions = 1
  /\ toast = IF held = <<>> THEN "none" ELSE "Records Loaded"
  /\ dialog = <<>>
  /\ deletes = <<>>
  /\ download = <<>>
  /\ activeTab = "records"
  /\ tabEffect = FALSE
  /\ Elsewhere(role)

\* the browser shows `held` under the default filters
Shows(held, zone, by, order) ==
  /\ records = held
  /\ tz = zone
  /\ searchTerm = <<>>
  /\ searchField = "all"
  /\ filterType = "all"
  /\ campusFilter = ALL
  /\ dateFilter = <<>>
  /\ dateRange = [start |-> <<>>, end |-> <<>>]
  /\ sortBy = by
  /\ sortOrder = order
  /\ filteredAndSortedRecords = computeView(held, criteria, zone).view

\* the state of the browser once a load has delivered `held`
Loaded(held, zone, by, order) ==
  /\ AtRest(held, "Admin")
  /\ Shows(held, zone, by, order)

TimeZones == (0 - MaxTz)..MaxTz

Init ==
  \E held \in LoadedLists, zone \in TimeZones :
    Loaded(held, zone, "submission_date", "desc")

\* ----------------------------------------------------------------- actions
setSearchTerm(t) ==
  /\ searchTerm' = t
  /\ UNCHANGED <<searchField, filterType, campusFilter, dateFilter, dateRange,
                 sortBy, sortOrder>>
  /\ Render

clearSearch ==
  /\ searchTerm # <<>>
  /\ searchTerm' = <<>>
  /\ UNCHANGED <<searchField, filterType, campusFilter, dateFilter, dateRange,
                 sortBy, sortOrder>>
  /\ Render

setSearchField(f) ==
  /\ searchField' = f
  /\ UNCHANGED <<searchTerm, filterType, campusFilter, dateFilter, dateRange,
                 sortBy, sortOrder>>
  /\ Render

setFilterType(t) ==
  /\ filterType' = t
  /\ UNCHANGED <<searchTerm, searchField, campusFilter, dateFilter, dateRange,
                 sortBy, sortOrder>>
  /\ Render

setCampusFilter(c) ==
  /\ c \in {ALL} \cup uniqueCampuses(records)
  /\ campusFilter' = c
  /\ UNCHANGED <<searchTerm, searchField, filterType, dateFilter, dateRange,
                 sortBy, sortOrder>>
  /\ Render

setDateFilter(d) ==
  /\ dateFilter' = d
  /\ UNCHANGED <<searchTerm, searchField, filterType, campusFilter, dateRange,
                 sortBy, sortOrder>>
  /\ Render

setDateRangeStart(d) ==
  /\ dateRange' = [dateRange EXCEPT !.start = d]
  /\ UNCHANGED <<searchTerm, searchField, filterType, campusFilter, dateFilter,
                 sortBy, sortOrder>>
  /\ Render

setDateRangeEnd(d) ==
  /\ dateRange' = [dateRange EXCEPT !.end = d]
  /\ UNCHANGED <<searchTerm, searchField, filterType, campusFilter, dateFilter,
                 sortBy, sortOrder>>
  /\ Render

clearDateRange ==
  /\ dateRange.start # <<>> \/ dateRange.end # <<>>
  /\ dateRange' = [start |-> <<>>, end |-> <<>>]
  /\ UNCHANGED <<searchTerm, searchField, filterType, campusFilter, dateFilter,
                 sortBy, sortOrder>>
  /\ Render

setSort(field, order) ==
  /\ sortBy' = field
  /\ sortOrder' = order
  /\ UNCHANGED <<searchTerm, searchField, filterType, campusFilter, dateFilter,
                 dateRange>>
  /\ Render

clearAllFilters ==
  /\ \/ searchTerm # <<>>
     \/ filterType # "all"
     \/ campusFilter # ALL
     \/ dateFilter # <<>>
     \/ dateRange.start # <<>>
     \/ dateRange.end # <<>>
  /\ searchTerm' = <<>>
  /\ searchField' = "all"
  /\ filterType' = "all"
  /\ campusFilter' = ALL
  /\ dateFilter' = <<>>
  /\ dateRange' = [start |-> <<>>, end |-> <<>>]
  /\ UNCHANGED <<sortBy, sortOrder>>
  /\ Render

\* ------------------------------------------------------- what the user enters
SearchFields == {"all", "name", "id_school", "program", "thesis_title"}

FilterTypes == {"all", "lpu", "non-lpu"}

SortKeys == {"submission_date", "full_name", "campus", "thesis_title", "user_type"}

\* the options of the sort selector
SortOptions ==
  {"submission_date", "full_name", "campus", "thesis_title"} \X {"desc", "asc"}

SearchTerms ==
  { <<>>, <<" ">>, <<"a","l","i","c","e">>, <<"A","L","I">>, <<"b","o","b">>,
    <<"s","t","u","d","y">>, <<" ","s">>, <<"s","1">>, <<"c","s">>, <<"m","i","t">> }

Malformed == <<0, 0>>

DateInputs == {<<>>, Malformed} \cup { <<d>> : d \in 1..MaxDay }

\* ---------------------------------------------------------- specifications
\* the whole browser, on a few values per control
Next ==
  \/ \E t \in {<<>>, <<"b","o","b">>} : setSearchTerm(t)
  \/ clearSearch
  \/ \E f \in {"all", "name"} : setSearchField(f)
  \/ \E t \in FilterTypes : setFilterType(t)
  \/ \E c \in {ALL, Main, Cavite} : setCampusFilter(c)
  \/ \E d \in {<<>>, <<2>>} : setDateFilter(d)
  \/ \E d \in {<<>>, <<1>>} : setDateRangeStart(d)
  \/ \E d \in {<<>>, <<2>>} : setDateRangeEnd(d)
  \/ clearDateRange
  \/ \E o \in {<<"submission_date", "desc">>, <<"full_name", "asc">>} : setSort(o[1], o[2])
  \/ clearAllFilters

Spec == Init /\ [][Next]_vars

\* the search box alone, on every field and a range of terms
NextSearch ==
  \/ \E t \in SearchTerms : setSearchTerm(t)
  \/ clearSearch
  \/ \E f \in SearchFields : setSearchField(f)

SpecSearch == Init /\ [][NextSearch]_vars

\* the date controls alone, on every date text
NextDate ==
  \/ \E d \in DateInputs : setDateFilter(d)
  \/ \E d \in DateInputs : setDateRangeStart(d)
  \/ \E d \in DateInputs : setDateRangeEnd(d)
  \/ clearDateRange

SpecDate == Init /\ [][NextDate]_vars

\* the sort: every key and direction the comparator handles, over every
\* category filter
InitSort ==
  \E held \in LoadedLists, zone \in TimeZones, by \in SortKeys, order \in {"asc", "desc"} :
    Loaded(held, zone, by, order)

NextSort ==
  \/ \E o \in SortOptions : setSort(o[1], o[2])
  \/ \E t \in FilterTypes : setFilterType(t)

SpecSort == InitSort /\ [][NextSort]_vars

\* ------------------------------------------------------------------ export
\* Array.prototype.join
RECURSIVE join(_, _)
join(parts, sep) ==
  IF parts = <<>> THEN <<>>
  ELSE IF Len(parts) = 1 THEN parts[1]
  ELSE parts[1] \o sep \o join(Tail(parts), sep)

\* the decimal text of a natural number
RECURSIVE decimal(_)
decimal(n) ==
  IF n < 10 THEN <<Digits[n + 1]>>
  ELSE decimal(n \div 10) \o <<Digits[(n % 10) + 1]>>

\* Date.prototype.toLocaleDateString: the calendar day in the browser's time
\* zone, written out
toLocaleDateString(d, zone) == decimal((d.time + zone) \div TicksPerDay)

headers ==
  << <<"N","a","m","e">>, <<"T","y","p","e">>,
     <<"I","D","/","S","c","h","o","o","l">>, <<"C","a","m","p","u","s">>,
     <<"P","r","o","g","r","a","m">>,
     <<"T","h","e","s","i","s"," ","T","i","t","l","e">>, <<"D","a","t","e">> >>

\* `"${field}"`
quoted(field) == <<"\"">> \o field \o <<"\"">>

exportFields(record, zone) ==
  << record.full_name,
     record.user_type,
     OrElse(record.student_number, OrElse(record.school, <<>>)),
     record.campus,
     OrElse(record.program, <<>>),
     record.thesis_title,
     toLocaleDateString(DateOfTimestamp(record.submission_date), zone) >>

exportRow(record, zone) ==
  LET fields == exportFields(record, zone)
  IN  join([i \in 1..Len(fields) |-> quoted(fields[i])], <<",">>)

\* (csvContent_bareFields: the fields are written without their quotes)
csvContent_bareFields(view, zone) ==
  join(<<join(headers, <<",">>)>>
         \o [i \in 1..Len(view) |-> join(exportFields(view[i], zone), <<",">>)],
       <<"\n">>)

csvContent(view, zone) ==
  join(<<join(headers, <<",">>)>> \o [i \in 1..Len(view) |-> exportRow(view[i], zone)],
       <<"\n">>)

\* (handleExport_heldList: the held list is written instead of the view)
handleExport_heldList ==
  /\ mounted /\ ~loading /\ dialog = <<>>
  /\ filteredAndSortedRecords # <<>>
  /\ download' = [name |-> "thesis_submissions.csv",
                  content |-> csvContent(records, tz)]
  /\ UNCHANGED <<browserVars, pageVars, restVars>>

\* the Export CSV button, disabled while the view is empty
handleExport ==
  /\ mounted /\ ~loading /\ dialog = <<>>
  /\ filteredAndSortedRecords # <<>>
  /\ download' = [name |-> "thesis_submissions.csv",
                  content |-> csvContent(filteredAndSortedRecords, tz)]
  /\ UNCHANGED <<browserVars, pageVars, restVars>>

\* the export, over every category filter and some orders of the view
NextExport ==
  \/ \E t \in FilterTypes : setFilterType(t)
  \/ \E o \in {<<"submission_date", "desc">>, <<"full_name", "asc">>,
               <<"thesis_title", "desc">>} : setSort(o[1], o[2])
  \/ handleExport

SpecExport == Init /\ [][NextExport]_vars

\* ------------------------------------------------- loading and the channel
\* the filter and sort state
criteriaVars ==
  <<searchTerm, searchField, filterType, campusFilter, dateFilter, dateRange,
    sortBy, sortOrder>>

\* the rows that come and go in the table while the page is open
Watched == {Alice.id, Bob.id}

\* useState defaults of a browser that is not on the page
Off(ids, zone) ==
  /\ mounted = FALSE
  /\ loading = TRUE
  /\ table = ids
  /\ loads = <<>>
  /\ notifications = 0
  /\ subscriptions = 0
  /\ toast = "none"
  /\ dialog = <<>>
  /\ deletes = <<>>
  /\ download = <<>>
  /\ activeTab = "statistics"
  /\ tabEffect = FALSE
  /\ records = <<>>
  /\ tz = zone
  /\ searchTerm = <<>>
  /\ searchField = "all"
  /\ filterType = "all"
  /\ campusFilter = ALL
  /\ dateFilter = <<>>
  /\ dateRange = [start |-> <<>>, end |-> <<>>]
  /\ sortBy = "submission_date"
  /\ sortOrder = "desc"
  /\ filteredAndSortedRecords = <<>>

\* the dashboard of an Admin before the records browser is on the page
Unmounted(ids, zone) ==
  /\ Off(ids, zone)
  /\ userRole = "Admin"
  /\ Elsewhere("Admin")

\* requests and change events in flight
InFlight ==
  Len(loads) + Len(deletes) + notifications + Len(userCalls) + Len(inserts)
    + resetTimers + (IF addCall = <<>> THEN 0 ELSE 1)

\* fetchRecords up to its await: the request leaves; the calls that still
\* wait are no longer the latest
fetchRecords(waiting) ==
  [i \in 1..Len(waiting) |->
     IF waiting[i].standing = "current"
     THEN [waiting[i] EXCEPT !.standing = "superseded"]
     ELSE waiting[i]]
  \o <<[standing |-> "current", phase |-> "sent", data |-> <<>>]>>

Remove(s, i) == SubSeq(s, 1, i - 1) \o SubSeq(s, i + 1, Len(s))

\* the User Records tab is clicked; the effect on mount: fetchRecords(), then
\* the channel is subscribed
mount ==
  /\ ~mounted /\ ~usersMounted
  /\ ~tabEffect
  /\ ~dashLoading /\ userRole # "null"
  /\ InFlight < MaxLoads
  /\ mounted' = TRUE
  /\ loading' = TRUE
  /\ loads' = fetchRecords(loads)
  /\ subscriptions' = subscriptions + 1
  /\ activeTab' = "records"
  /\ UNCHANGED <<browserVars, userRole, table, notifications, toast, dialog,
                 deletes, download, usersVars, roleVars, formVars,
                 tabEffect, fieldVars, addVars>>

\* the Refresh button, disabled while loading
refresh ==
  /\ mounted /\ ~loading /\ dialog = <<>>
  /\ InFlight < MaxLoads
  /\ loading' = TRUE
  /\ loads' = fetchRecords(loads)
  /\ UNCHANGED <<browserVars, mounted, userRole, table, notifications,
                 subscriptions, toast, dialog, deletes, download, restVars>>

\* the channel, if the client holds one, is told of a change of the table
notify ==
  IF subscriptions > 0
  THEN /\ InFlight < MaxLoads
       /\ notifications' = notifications + 1
  ELSE notifications' = notifications

\* another client inserts or deletes a row
tableChanges(id) ==
  /\ table' = IF id \in table THEN table \ {id} ELSE table \cup {id}
  /\ notify
  /\ UNCHANGED <<browserVars, mounted, loading, userRole, loads, subscriptions,
                 toast, dialog, deletes, download, restVars>>

\* another client updates a row
rowUpdates(id) ==
  /\ id \in table
  /\ subscriptions > 0
  /\ notify
  /\ UNCHANGED <<browserVars, mounted, loading, userRole, table, loads,
                 subscriptions, toast, dialog, deletes, download, restVars>>

\* (unmount_keepsChannel: the cleanup forgets removeChannel)
unmount_keepsChannel ==
  /\ mounted
  /\ ~tabEffect
  /\ dialog = <<>>
  /\ mounted' = FALSE
  /\ notifications' = 0
  /\ loads' = [i \in 1..Len(loads) |-> [loads[i] EXCEPT !.standing = "orphaned"]]
  /\ loading' = TRUE
  /\ records' = <<>>
  /\ filteredAndSortedRecords' = <<>>
  /\ deletes' = [i \in 1..Len(deletes) |-> [deletes[i] EXCEPT !.standing = "orphaned"]]
  /\ activeTab' = "statistics"
  /\ UNCHANGED <<tz, criteriaVars, userRole, table, subscriptions, toast, dialog,
                 download, usersVars, roleVars, formVars,
                 tabEffect, fieldVars, addVars>>

\* the Statistics tab is clicked; the cleanup of the effect: removeChannel;
\* the instance and its state go, the calls it started keep waiting
unmount ==
  /\ mounted
  /\ ~tabEffect
  /\ dialog = <<>>
  /\ mounted' = FALSE
  /\ subscriptions' = subscriptions - 1
  /\ notifications' = 0
  /\ loads' = [i \in 1..Len(loads) |-> [loads[i] EXCEPT !.standing = "orphaned"]]
  /\ loading' = TRUE
  /\ records' = <<>>
  /\ filteredAndSortedRecords' = <<>>
  /\ deletes' = [i \in 1..Len(deletes) |-> [deletes[i] EXCEPT !.standing = "orphaned"]]
  /\ activeTab' = "statistics"
  /\ UNCHANGED <<tz, criteriaVars, userRole, table, toast, dialog, download, usersVars, roleVars, formVars,
                 tabEffect, fieldVars, addVars>>

\* (onChange_patches: the callback drops the rows the table lost, no re-load)
onChange_patches ==
  /\ mounted /\ dialog = <<>>
  /\ notifications > 0
  /\ notifications' = notifications - 1
  /\ records' = Keep(records, table)
  /\ filteredAndSortedRecords' = computeView(records', criteria, tz).view
  /\ UNCHANGED <<tz, criteriaVars, mounted, loading, userRole, table, loads,
                 subscriptions, toast, dialog, deletes, download, restVars>>

\* the postgres_changes callback: fetchRecords()
onChange ==
  /\ mounted /\ dialog = <<>>
  /\ notifications > 0
  /\ notifications' = notifications - 1
  /\ loading' = TRUE
  /\ loads' = fetchRecords(loads)
  /\ UNCHANGED <<browserVars, mounted, userRole, table, subscriptions, toast,
                 dialog, deletes, download, restVars>>

LoadOutcomes == {"data", "error", "thrown"}

\* the select settles: rows by submission_date descending, an error in the
\* answer, or a rejected promise
loadSettles(i, outcome) ==
  /\ loads[i].phase = "sent"
  /\ loads' = [loads EXCEPT ![i] =
                 [standing |-> @.standing, phase |-> outcome,
                  data |-> IF outcome = "data" THEN Keep(TableDesc, table) ELSE <<>>]]
  /\ UNCHANGED <<browserVars, mounted, loading, userRole, table, notifications,
                 subscriptions, toast, dialog, deletes, download, restVars>>

\* (fetchRecords_resumes_clearsOnError: a failed load empties the list)
fetchRecords_resumes_clearsOnError(i) ==
  LET load == loads[i]
      live == mounted /\ load.standing # "orphaned"
  IN  /\ load.phase # "sent"
      /\ dialog = <<>>
      /\ loads' = Remove(loads, i)
      /\ toast' = IF load.phase = "data"
                  THEN IF load.data # <<>> THEN "Records Loaded" ELSE toast
                  ELSE "Failed to fetch submission records"
      /\ records' = IF live THEN load.data ELSE records
      /\ loading' = IF live THEN FALSE ELSE loading
      /\ filteredAndSortedRecords' = computeView(records', criteria, tz).view
      /\ UNCHANGED <<tz, criteriaVars, mounted, userRole, table, notifications,
                     subscriptions, dialog, deletes, download, restVars>>

\* fetchRecords after its await: setRecords and the toast, or the catch and
\* its toast; setLoading(false) in finally.  The setters of an instance that
\* has left the page do nothing.
fetchRecords_resumes(i) ==
  LET load == loads[i]
      live == mounted /\ load.standing # "orphaned"
  IN  /\ load.phase # "sent"
      /\ dialog = <<>>
      /\ loads' = Remove(loads, i)
      /\ toast' = IF load.phase = "data"
                  THEN IF load.data # <<>> THEN "Records Loaded" ELSE toast
                  ELSE "Failed to fetch submission records"
      /\ records' = IF live /\ load.phase = "data" THEN load.data ELSE records
      /\ loading' = IF live THEN FALSE ELSE loading
      /\ filteredAndSortedRecords' = computeView(records', criteria, tz).view
      /\ UNCHANGED <<tz, criteriaVars, mounted, userRole, table, notifications,
                     subscriptions, dialog, deletes, download, restVars>>

InitLoad == \E ids \in SUBSET Watched : Unmounted(ids, 0)

NextLoad ==
  \/ mount
  \/ unmount
  \/ refresh
  \/ \E id \in Watched : tableChanges(id)
  \/ \E id \in Watched : rowUpdates(id)
  \/ onChange
  \/ \E i \in 1..Len(loads), outcome \in LoadOutcomes : loadSettles(i, outcome)
  \/ \E i \in 1..Len(loads) : fetchRecords_resumes(i)

SpecLoad == InitLoad /\ [][NextLoad]_vars

\* ------------------------------------------------------- deleting a record
\* (handleDelete_noRoleCheck: the handler asks whoever clicks)
handleDelete_noRoleCheck(id) ==
  /\ mounted /\ ~loading /\ dialog = <<>>
  /\ id \in Ids(filteredAndSortedRecords)
  /\ InFlight < MaxLoads
  /\ dialog' = <<"record", id>>
  /\ UNCHANGED <<browserVars, mounted, loading, userRole, table, loads,
                 notifications, subscriptions, toast, deletes, download, restVars>>

\* (handleDelete_noConfirm: the request leaves without the question)
handleDelete_noConfirm(id) ==
  /\ mounted /\ ~loading /\ dialog = <<>>
  /\ id \in Ids(filteredAndSortedRecords)
  /\ InFlight < MaxLoads
  /\ IF userRole = "Reader"
     THEN /\ toast' = "Access Restricted"
          /\ UNCHANGED deletes
     ELSE /\ deletes' = Append(deletes, [id |-> id, standing |-> "current", phase |-> "sent"])
          /\ UNCHANGED toast
  /\ UNCHANGED <<browserVars, mounted, loading, userRole, table, loads,
                 notifications, subscriptions, dialog, download, restVars>>

\* handleDelete up to confirm(): a Reader is turned away with a toast, anyone
\* else is asked.  The row's button is rendered for an Admin only; the handler
\* makes its own check of the role it is given.
handleDelete(id) ==
  /\ mounted /\ ~loading /\ dialog = <<>>
  /\ id \in Ids(filteredAndSortedRecords)
  /\ InFlight < MaxLoads
  /\ IF userRole = "Reader"
     THEN /\ toast' = "Access Restricted"
          /\ UNCHANGED dialog
     ELSE /\ dialog' = <<"record", id>>
          /\ UNCHANGED toast
  /\ UNCHANGED <<browserVars, mounted, loading, userRole, table, loads,
                 notifications, subscriptions, deletes, download, restVars>>

\* confirm() returns true: the delete request leaves
handleDelete_confirmed ==
  /\ Len(dialog) = 2 /\ dialog[1] = "record"
  /\ dialog' = <<>>
  /\ deletes' = Append(deletes, [id |-> dialog[2], standing |-> "current", phase |-> "sent"])
  /\ UNCHANGED <<browserVars, mounted, loading, userRole, table, loads,
                 notifications, subscriptions, toast, download, restVars>>

\* confirm() returns false: the handler returns
handleDelete_declined ==
  /\ Len(dialog) = 2 /\ dialog[1] = "record"
  /\ dialog' = <<>>
  /\ UNCHANGED <<browserVars, mounted, loading, userRole, table, loads,
                 notifications, subscriptions, toast, deletes, download, restVars>>

CallOutcomes == {"ok", "error", "thrown"}

\* the delete settles: the row, if still there, is gone and the channel is
\* told; or an error in the answer; or a rejected promise
deleteSettles(i, outcome) ==
  /\ deletes[i].phase = "sent"
  /\ deletes' = [deletes EXCEPT ![i].phase = outcome]
  /\ IF outcome = "ok" /\ deletes[i].id \in table
     THEN /\ table' = table \ {deletes[i].id}
          /\ notify
     ELSE UNCHANGED <<table, notifications>>
  /\ UNCHANGED <<browserVars, mounted, loading, userRole, loads, subscriptions,
                 toast, dialog, download, restVars>>

\* handleDelete after its await: the success toast and fetchRecords(), or the
\* catch and its toast
handleDelete_resumes(i) ==
  LET call == deletes[i]
      live == mounted /\ call.standing # "orphaned"
  IN  /\ call.phase # "sent"
      /\ dialog = <<>>
      /\ deletes' = Remove(deletes, i)
      /\ IF call.phase = "ok"
         THEN /\ toast' = "Record deleted successfully"
              /\ loads' = IF live THEN fetchRecords(loads)
                          ELSE Append(loads, [standing |-> "orphaned", phase |-> "sent",
                                              data |-> <<>>])
              /\ loading' = IF live THEN TRUE ELSE loading
         ELSE /\ toast' = "Failed to delete record"
              /\ UNCHANGED <<loads, loading>>
      /\ UNCHANGED <<browserVars, mounted, userRole, table, notifications,
                     subscriptions, dialog, download, restVars>>

\* ------------------------------------------------------ the System Users panel
Accounts == {AdminRow, ReaderRow, FormerAdminRow}

\* the ids of rows, highest first (created_at descending)
RECURSIVE descending(_)
descending(ids) ==
  IF ids = {} THEN <<>>
  ELSE LET top == CHOOSE x \in ids : \A y \in ids : y <= x
       IN  <<top>> \o descending(ids \ {top})

\* fetchUsers up to its await
fetchUsers(standing) ==
  [op |-> "fetch", id |-> 0, standing |-> standing, phase |-> "sent", data |-> <<>>]

\* the Admin opens the System Users tab: the records browser leaves the page
\* and the panel's effect calls fetchUsers()
mountUsers ==
  /\ ~mounted /\ ~usersMounted
  /\ ~tabEffect
  /\ ~dashLoading /\ userRole = "Admin"
  /\ InFlight < MaxLoads
  /\ usersMounted' = TRUE
  /\ userCalls' = Append(userCalls, fetchUsers("current"))
  /\ activeTab' = "users"
  /\ UNCHANGED <<browserVars, pageVars, download, usersLoading, users, systemUsers,
                 roleVars, formVars, tabEffect, fieldVars, addVars>>

\* the Statistics tab is clicked: the panel leaves the page; the calls it
\* started keep waiting
unmountUsers ==
  /\ usersMounted
  /\ ~tabEffect
  /\ dialog = <<>>
  /\ usersMounted' = FALSE
  /\ usersLoading' = TRUE
  /\ users' = <<>>
  /\ userCalls' = [i \in 1..Len(userCalls) |-> [userCalls[i] EXCEPT !.standing = "orphaned"]]
  /\ activeTab' = "statistics"
  /\ showAddUser' = FALSE
  /\ newUser' = EmptyUser
  /\ UNCHANGED <<browserVars, pageVars, download, systemUsers, roleVars, formVars,
                 tabEffect, fieldVars, authUsers, addCall>>

\* a call of the panel settles
userCallSettles(i, outcome) ==
  LET call == userCalls[i]
  IN  /\ call.phase = "sent"
      /\ userCalls' = [userCalls EXCEPT ![i] =
           [@ EXCEPT !.phase = outcome,
                     !.data = IF call.op = "fetch" /\ outcome = "ok"
                              THEN descending({ row.id : row \in systemUsers })
                              ELSE <<>>]]
      /\ systemUsers' = IF call.op = "delete" /\ outcome = "ok"
                        THEN { row \in systemUsers : row.id # call.id }
                        ELSE systemUsers
      /\ UNCHANGED <<browserVars, pageVars, download, usersMounted, usersLoading,
                     users, roleVars, formVars, tabVars, fieldVars, addVars>>

\* fetchUsers after its await: setUsers, or the toast; setLoading(false) in
\* finally
fetchUsers_resumes(i) ==
  LET call == userCalls[i]
      live == usersMounted /\ call.standing # "orphaned"
  IN  /\ call.op = "fetch" /\ call.phase # "sent"
      /\ dialog = <<>>
      /\ userCalls' = Remove(userCalls, i)
      /\ users' = IF live /\ call.phase = "ok" THEN call.data ELSE users
      /\ usersLoading' = IF live THEN FALSE ELSE usersLoading
      /\ toast' = IF call.phase = "ok" THEN toast ELSE "Failed to fetch users"
      /\ UNCHANGED <<browserVars, mounted, loading, userRole, table, loads,
                     notifications, subscriptions, dialog, deletes, download,
                     usersMounted, systemUsers, roleVars, formVars, tabVars, fieldVars, addVars>>

\* handleDeleteUser up to confirm()
handleDeleteUser(id) ==
  /\ usersMounted /\ dialog = <<>>
  /\ \E k \in 1..Len(users) : users[k] = id
  /\ InFlight < MaxLoads
  /\ dialog' = <<"user", id>>
  /\ UNCHANGED <<browserVars, mounted, loading, userRole, table, loads,
                 notifications, subscriptions, toast, deletes, download, restVars>>

\* confirm() returns true: the delete request leaves
handleDeleteUser_confirmed ==
  /\ Len(dialog) = 2 /\ dialog[1] = "user"
  /\ dialog' = <<>>
  /\ userCalls' = Append(userCalls,
       [op |-> "delete", id |-> dialog[2], standing |-> "current", phase |-> "sent",
        data |-> <<>>])
  /\ UNCHANGED <<browserVars, mounted, loading, userRole, table, loads,
                 notifications, subscriptions, toast, deletes, download,
                 usersMounted, usersLoading, users, systemUsers, roleVars, formVars, tabVars, fieldVars, addVars>>

\* confirm() returns false: the handler returns
handleDeleteUser_declined ==
  /\ Len(dialog) = 2 /\ dialog[1] = "user"
  /\ dialog' = <<>>
  /\ UNCHANGED <<browserVars, mounted, loading, userRole, table, loads,
                 notifications, subscriptions, toast, deletes, download, restVars>>

\* handleDeleteUser after its await: the toast and fetchUsers(), or the toast
\* of the failure
handleDeleteUser_resumes(i) ==
  LET call == userCalls[i]
      live == usersMounted /\ call.standing # "orphaned"
  IN  /\ call.op = "delete" /\ call.phase # "sent"
      /\ dialog = <<>>
      /\ IF call.phase = "ok"
         THEN /\ toast' = "User deleted successfully"
              /\ userCalls' = Append(Remove(userCalls, i),
                                     fetchUsers(IF live THEN "current" ELSE "orphaned"))
         ELSE /\ toast' = "Failed to delete user"
              /\ userCalls' = Remove(userCalls, i)
      /\ UNCHANGED <<browserVars, mounted, loading, userRole, table, loads,
                     notifications, subscriptions, dialog, deletes, download,
                     usersMounted, usersLoading, users, systemUsers, roleVars, formVars, tabVars, fieldVars, addVars>>

\* the dashboard of an Admin or of a Reader, the records browser loaded
InitDelete ==
  \E ids \in SUBSET Watched, role \in {"Admin", "Reader"} :
    /\ Shows(Keep(TableDesc, ids), 0, "submission_date", "desc")
    /\ AtRest(Keep(TableDesc, ids), role)

NextDelete ==
  \/ \E id \in Watched : handleDelete(id)
  \/ handleDelete_confirmed
  \/ handleDelete_declined
  \/ \E i \in 1..Len(deletes), outcome \in CallOutcomes : deleteSettles(i, outcome)
  \/ \E i \in 1..Len(deletes) : handleDelete_resumes(i)
  \/ onChange
  \/ \E i \in 1..Len(loads), outcome \in LoadOutcomes : loadSettles(i, outcome)
  \/ \E i \in 1..Len(loads) : fetchRecords_resumes(i)
  \/ mount
  \/ unmount
  \/ mountUsers
  \/ unmountUsers
  \/ \E i \in 1..Len(userCalls), outcome \in CallOutcomes : userCallSettles(i, outcome)
  \/ \E i \in 1..Len(userCalls) : fetchUsers_resumes(i)
  \/ \E row \in Accounts : handleDeleteUser(row.id)
  \/ handleDeleteUser_confirmed
  \/ handleDeleteUser_declined
  \/ \E i \in 1..Len(userCalls) : handleDeleteUser_resumes(i)

SpecDelete == InitDelete /\ [][NextDelete]_vars

\* ------------------------------------------------------------ Add New User
\* the row handleAddUser inserts for the identity signUp has created
NewRow == [id |-> 4, user_id |-> "n", role |-> newUser.role, status |-> newUser.status]

\* the Add New User button, and Cancel
setShowAddUser(open) ==
  /\ usersMounted /\ ~usersLoading
  /\ dialog = <<>>
  /\ showAddUser # open
  /\ showAddUser' = open
  /\ UNCHANGED <<browserVars, pageVars, download, usersVars, roleVars, formVars,
                 tabVars, fieldVars, newUser, authUsers, addCall>>

\* setNewUser({...newUser, [field]: value}) from an input of the form
setNewUser(field, value) ==
  /\ usersMounted /\ ~usersLoading
  /\ dialog = <<>>
  /\ showAddUser
  /\ newUser[field] # value
  /\ newUser' = [newUser EXCEPT ![field] = value]
  /\ UNCHANGED <<browserVars, pageVars, download, usersVars, roleVars, formVars,
                 tabVars, fieldVars, showAddUser, authUsers, addCall>>

\* the form is submitted; name and email are required inputs, so the
\* handler's own check of them passes.  handleAddUser up to its first await:
\* signUp leaves.  One add is followed at a time.
handleAddUser ==
  /\ usersMounted /\ ~usersLoading
  /\ dialog = <<>>
  /\ showAddUser
  /\ newUser.name # <<>> /\ newUser.email # <<>>
  /\ addCall = <<>>
  /\ InFlight < MaxLoads
  /\ IF user = "null"
     THEN /\ toast' = "You must be logged in to add users"
          /\ UNCHANGED addCall
     ELSE /\ addCall' = [stage |-> "signUp", phase |-> "sent", row |-> NewRow]
          /\ UNCHANGED toast
  /\ UNCHANGED <<browserVars, mounted, loading, userRole, table, loads,
                 notifications, subscriptions, dialog, deletes, download, usersVars,
                 roleVars, formVars, tabVars, fieldVars, showAddUser, newUser,
                 authUsers>>

\* the call that waits settles: signUp creates the identity unless the email
\* has one, the insert adds the row, auth.admin.deleteUser removes the
\* identity; or the answer carries an error; or the promise is rejected
addCallSettles(outcome) ==
  /\ addCall # <<>>
  /\ addCall.phase = "sent"
  /\ (outcome = "ok" /\ addCall.stage = "signUp") => addCall.row.user_id \notin authUsers
  /\ addCall' = [addCall EXCEPT !.phase = outcome]
  /\ authUsers' = IF outcome # "ok" THEN authUsers
                  ELSE IF addCall.stage = "signUp" THEN authUsers \cup {addCall.row.user_id}
                  ELSE IF addCall.stage = "deleteUser" THEN authUsers \ {addCall.row.user_id}
                  ELSE authUsers
  /\ systemUsers' = IF outcome = "ok" /\ addCall.stage = "insert"
                    THEN systemUsers \cup {addCall.row}
                    ELSE systemUsers
  /\ UNCHANGED <<browserVars, pageVars, download, usersMounted, usersLoading, users,
                 userCalls, roleVars, formVars, tabVars, fieldVars, showAddUser,
                 newUser>>

\* handleAddUser after an await
handleAddUser_resumes ==
  /\ addCall # <<>>
  /\ addCall.phase # "sent"
  /\ dialog = <<>>
  /\ IF addCall.phase = "thrown"
     THEN \* catch
          /\ toast' = "Failed to add user"
          /\ addCall' = <<>>
          /\ UNCHANGED <<showAddUser, newUser, userCalls>>
     ELSE IF addCall.stage = "signUp"
     THEN IF addCall.phase = "error"
          THEN /\ toast' = "Failed to create user account"
               /\ addCall' = <<>>
               /\ UNCHANGED <<showAddUser, newUser, userCalls>>
          ELSE /\ addCall' = [addCall EXCEPT !.stage = "insert", !.phase = "sent"]
               /\ UNCHANGED <<toast, showAddUser, newUser, userCalls>>
     ELSE IF addCall.stage = "insert"
     THEN IF addCall.phase = "error"
          THEN \* the clean-up of the identity
               /\ addCall' = [addCall EXCEPT !.stage = "deleteUser", !.phase = "sent"]
               /\ UNCHANGED <<toast, showAddUser, newUser, userCalls>>
          ELSE /\ toast' = "Success"
               /\ showAddUser' = FALSE
               /\ newUser' = EmptyUser
               /\ userCalls' = Append(userCalls,
                                      fetchUsers(IF usersMounted THEN "current"
                                                 ELSE "orphaned"))
               /\ addCall' = <<>>
     ELSE \* the answer of deleteUser is not looked at
          /\ toast' = "Failed to add user"
          /\ addCall' = <<>>
          /\ UNCHANGED <<showAddUser, newUser, userCalls>>
  /\ UNCHANGED <<browserVars, mounted, loading, userRole, table, loads,
                 notifications, subscriptions, dialog, deletes, download,
                 usersMounted, usersLoading, users, systemUsers, roleVars, formVars,
                 tabVars, fieldVars, authUsers>>

NextAdd ==
  \/ mountUsers
  \/ \E i \in 1..Len(userCalls), outcome \in CallOutcomes : userCallSettles(i, outcome)
  \/ \E i \in 1..Len(userCalls) : fetchUsers_resumes(i)
  \/ \E open \in BOOLEAN : setShowAddUser(open)
  \/ \E field \in {"name", "email"} : \E value \in {<<>>, <<"n">>} :
        setNewUser(field, value)
  \/ \E value \in {"Admin", "Reader"} : setNewUser("role", value)
  \/ handleAddUser
  \/ \E outcome \in CallOutcomes : addCallSettles(outcome)
  \/ handleAddUser_resumes

\* from the dashboard of an Admin
SpecAdd == Unmounted({}, 0) /\ [][NextAdd]_vars

\* ---------------------------------------------------------- the role lookup
Profiles == {"admin", "user", "none"}

\* (activeRows_anyStatus: the query forgets .eq('status', 'Active'))
activeRows_anyStatus(rows, u) == { row \in rows : row.user_id = u }

\* the tabs whose requiredRole is 'Admin'
AdminOnly == {"thesis", "users"}

\* tabs.filter(tab => !tab.requiredRole || userRole === 'Admin')
availableTabs == { tab \in {"statistics", "records", "thesis", "users"} :
                     tab \notin AdminOnly \/ userRole = "Admin" }

\* what AdminDashboard returns: the spinner, the Access Denied page or the
\* dashboard with its navigation and renderContent()
Screen ==
  IF dashLoading THEN "Loading"
  ELSE IF userRole = "null" THEN "Access Denied"
  ELSE "Dashboard"

\* (renderContent_noRoleCheck: the switch alone, without the permission check)
renderContent_noRoleCheck(role, tab) ==
  CASE tab = "statistics" -> "StatisticsTab"
    [] tab = "records" -> "UserRecords"
    [] tab = "thesis" -> "ThesisData"
    [] tab = "users" -> "SystemUsers"

\* renderContent(): the panel of the active tab, or the Access Restricted
\* panel when the tab requires Admin and the role is not Admin
renderContent(role, tab) ==
  IF tab \in AdminOnly /\ role # "Admin"
  THEN "Access Restricted"
  ELSE CASE tab = "statistics" -> "StatisticsTab"
         [] tab = "records" -> "UserRecords"
         [] tab = "thesis" -> "ThesisData"
         [] tab = "users" -> "SystemUsers"

\* .eq('user_id', user.id).eq('status', 'Active')
activeRows(rows, u) == { row \in rows : row.user_id = u /\ row.status = "Active" }

\* the effect of AdminDashboard: fetchUserRole up to its first await, or its
\* return when nobody is signed in.  The redirect effect of the same flush
\* finds no role and does nothing.
fetchUserRole ==
  /\ dashLoading /\ roleCall = <<>>
  /\ IF user = "null"
     THEN /\ dashLoading' = FALSE
          /\ UNCHANGED roleCall
     ELSE /\ roleCall' = [stage |-> "system_users", phase |-> "sent", answer |-> "none"]
          /\ UNCHANGED dashLoading
  /\ UNCHANGED <<browserVars, pageVars, download, usersVars, user, profile, formVars, tabVars, fieldVars, addVars>>

\* the query that waits settles: maybeSingle() gives the one row, null for no
\* row and an error for several; or the answer carries an error; or the
\* promise is rejected
roleCallSettles(outcome) ==
  /\ roleCall # <<>>
  /\ roleCall.phase = "sent"
  /\ LET rows == activeRows(systemUsers, user)
     IN  \/ /\ outcome = "data"
            /\ roleCall.stage = "system_users"
            /\ Cardinality(rows) <= 1
            /\ roleCall' = [roleCall EXCEPT !.phase = "data",
                              !.answer = IF rows = {} THEN "none"
                                         ELSE (CHOOSE row \in rows : TRUE).role]
         \/ /\ outcome = "data"
            /\ roleCall.stage = "profiles"
            /\ roleCall' = [roleCall EXCEPT !.phase = "data", !.answer = profile]
         \/ /\ outcome \in {"error", "thrown"}
            /\ roleCall' = [roleCall EXCEPT !.phase = outcome]
  /\ UNCHANGED <<browserVars, pageVars, download, usersVars, user, dashLoading,
                 profile, formVars, tabVars, fieldVars, addVars>>

\* (fetchUserRole_resumes_errorIsReader: a query error falls back to Reader)
fetchUserRole_resumes_errorIsReader ==
  /\ roleCall # <<>>
  /\ roleCall.phase # "sent"
  /\ dialog = <<>>
  /\ IF roleCall.phase = "thrown"
     THEN \* catch: the role defaults to Reader
          /\ userRole' = "Reader"
          /\ roleCall' = <<>>
          /\ dashLoading' = FALSE
          /\ UNCHANGED toast
     ELSE IF roleCall.stage = "system_users"
     THEN IF roleCall.phase = "error"
          THEN /\ toast' = "Failed to fetch user permissions"
               /\ roleCall' = <<>>
               /\ dashLoading' = FALSE
               /\ userRole' = "Reader"
          ELSE IF roleCall.answer = "none"
          THEN /\ roleCall' = [stage |-> "profiles", phase |-> "sent", answer |-> "none"]
               /\ UNCHANGED <<userRole, dashLoading, toast>>
          ELSE /\ userRole' = roleCall.answer
               /\ roleCall' = <<>>
               /\ dashLoading' = FALSE
               /\ UNCHANGED toast
     ELSE \* profileError is logged; profileData?.role === 'admin'
          /\ userRole' = IF roleCall.phase = "data" /\ roleCall.answer = "admin"
                         THEN "Admin" ELSE "Reader"
          /\ roleCall' = <<>>
          /\ dashLoading' = FALSE
          /\ UNCHANGED toast
  \* the commit of a new role schedules the redirect effect
  /\ tabEffect' = (tabEffect \/ userRole' # userRole)
  /\ IF usersMounted /\ renderContent(userRole', activeTab) # "SystemUsers"
     THEN \* the System Users panel leaves the page with that commit
          /\ usersMounted' = FALSE
          /\ usersLoading' = TRUE
          /\ users' = <<>>
          /\ userCalls' = [i \in 1..Len(userCalls) |->
                             [userCalls[i] EXCEPT !.standing = "orphaned"]]
          /\ showAddUser' = FALSE
          /\ newUser' = EmptyUser
          /\ UNCHANGED systemUsers
     ELSE UNCHANGED <<usersVars, showAddUser, newUser>>
  /\ UNCHANGED <<browserVars, mounted, loading, table, loads, notifications,
                 subscriptions, dialog, deletes, download, user, profile,
                 formVars, activeTab, fieldVars, authUsers, addCall>>

\* fetchUserRole after an await
fetchUserRole_resumes ==
  /\ roleCall # <<>>
  /\ roleCall.phase # "sent"
  /\ dialog = <<>>
  /\ IF roleCall.phase = "thrown"
     THEN \* catch: the role defaults to Reader
          /\ userRole' = "Reader"
          /\ roleCall' = <<>>
          /\ dashLoading' = FALSE
          /\ UNCHANGED toast
     ELSE IF roleCall.stage = "system_users"
     THEN IF roleCall.phase = "error"
          THEN /\ toast' = "Failed to fetch user permissions"
               /\ roleCall' = <<>>
               /\ dashLoading' = FALSE
               /\ UNCHANGED userRole
          ELSE IF roleCall.answer = "none"
          THEN /\ roleCall' = [stage |-> "profiles", phase |-> "sent", answer |-> "none"]
               /\ UNCHANGED <<userRole, dashLoading, toast>>
          ELSE /\ userRole' = roleCall.answer
               /\ roleCall' = <<>>
               /\ dashLoading' = FALSE
               /\ UNCHANGED toast
     ELSE \* profileError is logged; profileData?.role === 'admin'
          /\ userRole' = IF roleCall.phase = "data" /\ roleCall.answer = "admin"
                         THEN "Admin" ELSE "Reader"
          /\ roleCall' = <<>>
          /\ dashLoading' = FALSE
          /\ UNCHANGED toast
  \* the commit of a new role schedules the redirect effect
  /\ tabEffect' = (tabEffect \/ userRole' # userRole)
  /\ IF usersMounted /\ renderContent(userRole', activeTab) # "SystemUsers"
     THEN \* the System Users panel leaves the page with that commit
          /\ usersMounted' = FALSE
          /\ usersLoading' = TRUE
          /\ users' = <<>>
          /\ userCalls' = [i \in 1..Len(userCalls) |->
                             [userCalls[i] EXCEPT !.standing = "orphaned"]]
          /\ showAddUser' = FALSE
          /\ newUser' = EmptyUser
          /\ UNCHANGED systemUsers
     ELSE UNCHANGED <<usersVars, showAddUser, newUser>>
  /\ UNCHANGED <<browserVars, mounted, loading, table, loads, notifications,
                 subscriptions, dialog, deletes, download, user, profile,
                 formVars, activeTab, fieldVars, authUsers, addCall>>

\* (redirectEffect_keepsTab: the effect never calls setActiveTab)
redirectEffect_keepsTab ==
  /\ tabEffect
  /\ tabEffect' = FALSE
  /\ UNCHANGED <<browserVars, pageVars, download, usersVars, roleVars, formVars,
                 activeTab, fieldVars, addVars>>

\* the redirect effect, run after a commit that changed the role: a role
\* other than Admin on an Admin-only tab goes back to Statistics
redirectEffect ==
  /\ tabEffect
  /\ tabEffect' = FALSE
  /\ activeTab' = IF userRole \notin {"null", "Admin"} /\ activeTab \in AdminOnly
                  THEN "statistics"
                  ELSE activeTab
  /\ UNCHANGED <<browserVars, pageVars, download, usersVars, roleVars, formVars,
                 fieldVars, addVars>>

\* the dashboard as constructed, before its effect has run
Constructed(signedIn, rows, role) ==
  /\ userRole = "null"
  /\ Idle
  /\ userType = "lpu"
  /\ formData = EmptyForm
  /\ systemUsers = rows
  /\ user = signedIn
  /\ dashLoading = TRUE
  /\ profile = role
  /\ roleCall = <<>>

InitRole ==
  \E signedIn \in {"u", "null"}, rows \in SUBSET Accounts, role \in Profiles :
    /\ Off({}, 0)
    /\ Constructed(signedIn, rows, role)

RoleOutcomes == {"data", "error", "thrown"}

NextRole ==
  \/ fetchUserRole
  \/ \E outcome \in RoleOutcomes : roleCallSettles(outcome)
  \/ fetchUserRole_resumes
  \/ redirectEffect

SpecRole == InitRole /\ [][NextRole]_vars

\* --------------------------------------------------- the tabs of the dashboard
\* useAuth hands the dashboard another user object: the signed-in user again
\* after a refresh of the session, or null after a sign-out.  The effect with
\* the dependencies [user, toast] runs fetchUserRole again, this time with
\* loading left false.
authStateChanges(next) ==
  /\ ~dashLoading /\ roleCall = <<>>
  /\ ~tabEffect
  /\ dialog = <<>>
  /\ ~(user = "null" /\ next = "null")
  /\ user' = next
  /\ roleCall' = IF next = "null"
                 THEN <<>>
                 ELSE [stage |-> "system_users", phase |-> "sent", answer |-> "none"]
  /\ UNCHANGED <<browserVars, pageVars, download, usersVars, dashLoading, profile,
                 formVars, tabVars, fieldVars, addVars>>

\* a click on a tab of the navigation that mounts no modelled panel
selectTab(tab) ==
  /\ Screen = "Dashboard"
  /\ ~mounted /\ ~usersMounted
  /\ ~tabEffect
  /\ tab \in availableTabs
  /\ tab # activeTab
  /\ activeTab' = tab
  /\ UNCHANGED <<browserVars, pageVars, download, usersVars, roleVars, formVars,
                 tabEffect, fieldVars, addVars>>

InitTabs ==
  \E rows \in {{AdminRow}, {ReaderRow}} :
    /\ Off({Alice.id}, 0)
    /\ Constructed("u", rows, "none")

NextTabs ==
  \/ NextRole
  \/ \E next \in {"u", "null"} : authStateChanges(next)
  \/ \E tab \in {"statistics", "thesis"} : selectTab(tab)
  \/ mount
  \/ unmount
  \/ mountUsers
  \/ unmountUsers
  \/ \E i \in 1..Len(loads) : loadSettles(i, "data")
  \/ \E i \in 1..Len(loads) : fetchRecords_resumes(i)
  \/ \E i \in 1..Len(userCalls) : userCallSettles(i, "ok")
  \/ \E i \in 1..Len(userCalls) : fetchUsers_resumes(i)
  \/ handleDelete(Alice.id)
  \/ handleDelete_confirmed
  \/ handleDelete_declined
  \/ \E i \in 1..Len(deletes) : deleteSettles(i, "ok")
  \/ \E i \in 1..Len(deletes) : handleDelete_resumes(i)

SpecTabs == InitTabs /\ [][NextTabs]_vars

\* React runs a scheduled effect
SpecTabsFair == SpecTabs /\ WF_vars(redirectEffect)

\* ------------------------------------------------------ the submission form
\* the inputs of the form and what can be typed or chosen in them; the second
\* input is bound to studentNumber or to school by the category, the program
\* select is rendered for 'lpu' only
Fields(type) ==
  IF type = "lpu"
  THEN {"fullName", "studentNumber", "campus", "program", "thesisTitle"}
  ELSE {"fullName", "school", "campus", "thesisTitle"}

Entries(field) ==
  CASE field = "fullName" -> {<<>>, <<" ">>, Bob.full_name}
    [] field = "studentNumber" -> {<<>>, Alice.student_number}
    [] field = "school" -> {<<>>, Bob.school}
    [] field = "campus" -> {<<>>, Main}
    [] field = "program" -> {<<>>, Alice.program}
    [] field = "thesisTitle" -> {<<>>, Bob.thesis_title}

\* the radio buttons: setUserType; the text of the inputs stays
setUserType(type) ==
  /\ type # userType
  /\ userType' = type
  /\ UNCHANGED <<browserVars, pageVars, download, usersVars, roleVars, formVars,
                 tabVars, formData, showSuccess, resetTimers, addVars>>

\* setFormData(prev => ({...prev, [field]: value}))
handleInputChange(field, value) ==
  /\ field \in Fields(userType)
  /\ value # formData[field]
  /\ formData' = [formData EXCEPT ![field] = value]
  /\ UNCHANGED <<browserVars, pageVars, download, usersVars, roleVars, formVars,
                 tabVars, userType, showSuccess, resetTimers, addVars>>

\* ThesisTitleSearch is handed required and passes it to its input
ThesisTitleSearch_valueMissing(value) == value = <<>>

\* (checkValidity_programOptional: the program select is not required)
checkValidity_programOptional ==
  /\ formData.fullName # <<>>
  /\ (IF userType = "lpu" THEN formData.studentNumber ELSE formData.school) # <<>>
  /\ formData.campus # <<>>
  /\ ~ThesisTitleSearch_valueMissing(formData.thesisTitle)

\* the browser validates the rendered required controls before the submit
\* event is fired: an empty value is missing, a blank one is not
checkValidity ==
  /\ formData.fullName # <<>>
  /\ (IF userType = "lpu" THEN formData.studentNumber ELSE formData.school) # <<>>
  /\ formData.campus # <<>>
  /\ userType = "lpu" => formData.program # <<>>
  /\ ~ThesisTitleSearch_valueMissing(formData.thesisTitle)

\* (submissionData_asTyped: every field goes out as it stands in formData)
submissionData_asTyped ==
  [full_name |-> formData.fullName,
   user_type |-> IF userType = "lpu" THEN LPU_STUDENT ELSE NON_LPU_STUDENT,
   student_number |-> formData.studentNumber,
   school |-> formData.school,
   campus |-> formData.campus,
   program |-> formData.program,
   thesis_title |-> formData.thesisTitle]

\* the row handleSubmit builds; submission_date is the clock's
submissionData ==
  [full_name |-> formData.fullName,
   user_type |-> IF userType = "lpu" THEN LPU_STUDENT ELSE NON_LPU_STUDENT,
   student_number |-> IF userType = "lpu" THEN formData.studentNumber ELSE null,
   school |-> IF userType = "non-lpu" THEN formData.school ELSE null,
   campus |-> formData.campus,
   program |-> IF userType = "lpu" THEN formData.program ELSE null,
   thesis_title |-> formData.thesisTitle]

\* (handleSubmit_buttonEnabled: the submit button is never disabled)
handleSubmit_buttonEnabled(id) ==
  /\ checkValidity
  /\ InFlight < MaxLoads
  /\ isSubmitting' = TRUE
  /\ inserts' = Append(inserts, [id |-> id, phase |-> "sent", row |-> submissionData])
  /\ UNCHANGED <<browserVars, pageVars, download, usersVars, roleVars, tabVars, fieldVars, addVars>>

\* the form is submitted, by the button, which is disabled while isSubmitting,
\* or by Enter, which needs the button enabled; handleSubmit up to its await:
\* the insert of submissionData leaves.  The store will give the row the key id.
handleSubmit(id) ==
  /\ ~isSubmitting
  /\ checkValidity
  /\ InFlight < MaxLoads
  /\ isSubmitting' = TRUE
  /\ inserts' = Append(inserts, [id |-> id, phase |-> "sent", row |-> submissionData])
  /\ UNCHANGED <<browserVars, pageVars, download, usersVars, roleVars, tabVars, fieldVars, addVars>>

\* the insert settles: the row is in the table and the channel is told; or an
\* error in the answer; or a rejected promise
insertSettles(i, outcome) ==
  /\ inserts[i].phase = "sent"
  /\ inserts' = [inserts EXCEPT ![i].phase = outcome]
  /\ IF outcome = "ok" /\ inserts[i].id \notin table
     THEN /\ table' = table \cup {inserts[i].id}
          /\ notify
     ELSE UNCHANGED <<table, notifications>>
  /\ UNCHANGED <<browserVars, mounted, loading, userRole, loads, subscriptions,
                 toast, dialog, deletes, download, usersVars, roleVars, isSubmitting,
                 tabVars, fieldVars, addVars>>

\* handleSubmit after its await: the success modal, the toast and the timer
\* of the reset, or the toast of the failure; setIsSubmitting(false) in finally
handleSubmit_resumes(i) ==
  /\ inserts[i].phase # "sent"
  /\ dialog = <<>>
  /\ inserts' = Remove(inserts, i)
  /\ toast' = IF inserts[i].phase = "ok" THEN "Record Submitted" ELSE "Submission Failed"
  /\ IF inserts[i].phase = "ok"
     THEN /\ showSuccess' = TRUE
          /\ resetTimers' = resetTimers + 1
     ELSE UNCHANGED <<showSuccess, resetTimers>>
  /\ isSubmitting' = FALSE
  /\ UNCHANGED <<browserVars, mounted, loading, userRole, table, loads,
                 notifications, subscriptions, dialog, deletes, download, usersVars,
                 roleVars, tabVars, userType, formData, addVars>>

\* the callback of setTimeout(..., 2000): the inputs are emptied and the
\* modal goes; the category stays
resetForm ==
  /\ resetTimers > 0
  /\ dialog = <<>>
  /\ resetTimers' = resetTimers - 1
  /\ formData' = EmptyForm
  /\ showSuccess' = FALSE
  /\ UNCHANGED <<browserVars, pageVars, download, usersVars, roleVars, formVars,
                 tabVars, userType, addVars>>

NextForm ==
  \/ \E type \in {"lpu", "non-lpu"} : setUserType(type)
  \/ \E field \in Fields(userType) : \E value \in Entries(field) :
        handleInputChange(field, value)
  \/ handleSubmit(Bob.id)
  \/ \E i \in 1..Len(inserts), outcome \in CallOutcomes : insertSettles(i, outcome)
  \/ \E i \in 1..Len(inserts) : handleSubmit_resumes(i)
  \/ resetForm

\* from the form as constructed
SpecForm == Unmounted({}, 0) /\ [][NextForm]_vars

\* ------------------------------------------- every call to the store at once
\* the dashboard of a signed-in user as constructed, one row in the table
\* and the public form filled in by a visitor
InitCalls ==
  \E rows \in {{AdminRow}, {ReaderRow}, {}} :
    /\ Off({Alice.id}, 0)
    /\ userRole = "null"
    /\ Idle
    /\ systemUsers = rows
    /\ user = "u"
    /\ dashLoading = TRUE
    /\ profile = "none"
    /\ roleCall = <<>>
    /\ userType = "non-lpu"
    /\ formData = [EmptyForm EXCEPT !.fullName = Bob.full_name, !.school = Bob.school,
                                    !.campus = Bob.campus,
                                    !.thesisTitle = Bob.thesis_title]

NextCalls ==
  \/ NextRole
  \/ mount
  \/ refresh
  \/ onChange
  \/ \E i \in 1..Len(loads), outcome \in LoadOutcomes : loadSettles(i, outcome)
  \/ \E i \in 1..Len(loads) : fetchRecords_resumes(i)
  \/ \E id \in Watched : handleDelete(id)
  \/ handleDelete_confirmed
  \/ handleDelete_declined
  \/ \E i \in 1..Len(deletes), outcome \in CallOutcomes : deleteSettles(i, outcome)
  \/ \E i \in 1..Len(deletes) : handleDelete_resumes(i)
  \/ handleSubmit(Bob.id)
  \/ \E i \in 1..Len(inserts), outcome \in CallOutcomes : insertSettles(i, outcome)
  \/ \E i \in 1..Len(inserts) : handleSubmit_resumes(i)
  \/ resetForm

SpecCalls == InitCalls /\ [][NextCalls]_vars

\* --------------------------------------------- loads that all succeed
\* mount, refresh, notifications and deletes, every answer of the store a
\* success
NextSync ==
  \/ mount
  \/ refresh
  \/ \E id \in Watched : tableChanges(id)
  \/ onChange
  \/ \E i \in 1..Len(loads) : loadSettles(i, "data")
  \/ \E i \in 1..Len(loads) : fetchRecords_resumes(i)
  \/ \E id \in Watched : handleDelete(id)
  \/ handleDelete_confirmed
  \/ handleDelete_declined
  \/ \E i \in 1..Len(deletes) : deleteSettles(i, "ok")
  \/ \E i \in 1..Len(deletes) : handleDelete_resumes(i)

SpecSync == InitLoad /\ [][NextSync]_vars

\* ------------------------------------------------------------- properties
Rows == { TableDesc[i] : i \in 1..Len(TableDesc) }

Count(arr, r) == Cardinality({ i \in 1..Len(arr) : arr[i] = r })

InView(r) == \E j \in 1..Len(filteredAndSortedRecords) : filteredAndSortedRecords[j] = r

dateRangeSet == dateRange.start # <<>> \/ dateRange.end # <<>>

\* C1: the view holds every record of the held list that passes the term,
\* the category, the campus and the date predicate, as often as the list
\* holds it, and holds nothing else.
C1_ViewIsFilteredReordering ==
  \A r \in Rows :
    Count(filteredAndSortedRecords, r) =
      IF /\ matchesSearch(r, searchTerm, searchField)
         /\ matchesUserType(r, filterType)
         /\ matchesCampus(r, campusFilter)
         /\ matchesDate(r, dateFilter, dateRange, tz)
      THEN Count(records, r)
      ELSE 0

\* all four filters are active, and they keep one record of three
C1_Witness ==
  /\ trim(searchTerm) # <<>>
  /\ filterType # "all"
  /\ campusFilter # ALL
  /\ dateFilter # <<>>
  /\ Len(records) = 3
  /\ Len(filteredAndSortedRecords) = 1

\* the text of a nullable column, '' for null
TextOf(x) == IF x = null THEN <<>> ELSE x

\* the identifier of an affiliated submitter, the institution of an external one
IdOrInstitution(r) ==
  IF r.user_type = LPU_STUDENT THEN TextOf(r.student_number) ELSE TextOf(r.school)

FieldText(r, f) ==
  CASE f = "name" -> r.full_name
    [] f = "id_school" -> IdOrInstitution(r)
    [] f = "program" -> TextOf(r.program)
    [] f = "thesis_title" -> r.thesis_title

TermOccursIn(r, f) == includes(toLowerCase(FieldText(r, f)), toLowerCase(searchTerm))

TermPredicate(r) ==
  IF searchField = "all"
  THEN \E f \in {"name", "thesis_title", "id_school", "program"} : TermOccursIn(r, f)
  ELSE TermOccursIn(r, searchField)

onlySearchActive ==
  filterType = "all" /\ campusFilter = ALL /\ dateFilter = <<>> /\ ~dateRangeSet

\* C2 as stated: with a non-empty term, a record is shown iff the lower-cased
\* term occurs in the lower-cased selected field, or in one of the four
\* fields when all fields are searched.
C2_AnyNonEmptyTerm ==
  (searchTerm # <<>> /\ onlySearchActive) =>
    \A i \in 1..Len(records) : InView(records[i]) <=> TermPredicate(records[i])

\* C2 amended: the same for a term that is not empty after trimming
\* white space; a term of white space alone filters nothing.
C2_TrimmedTerm ==
  /\ (trim(searchTerm) # <<>> /\ onlySearchActive) =>
       \A i \in 1..Len(records) : InView(records[i]) <=> TermPredicate(records[i])
  /\ (trim(searchTerm) = <<>> /\ onlySearchActive) =>
       \A i \in 1..Len(records) : InView(records[i])

\* 'alice' over all fields on Bob and Alice shows Alice alone
C2_Witness ==
  /\ searchTerm = <<"a","l","i","c","e">>
  /\ searchField = "all"
  /\ records = <<Bob, Alice>>
  /\ filteredAndSortedRecords = <<Alice>>

\* C3: while an exact date is set, no choice of range bounds gives another
\* view than the current one.
C3_ExactDateOverridesRange ==
  dateFilter # <<>> =>
    \A s \in DateInputs, e \in DateInputs :
      computeView(records, [criteria EXCEPT !.dateRange = [start |-> s, end |-> e]], tz).view
        = filteredAndSortedRecords

\* an exact date and both bounds are set, and the view shows a record that
\* lies after the range's end
C3_Witness ==
  /\ Len(dateFilter) = 1
  /\ Len(dateRange.start) = 1
  /\ Len(dateRange.end) = 1
  /\ \E j \in 1..Len(filteredAndSortedRecords) :
       filteredAndSortedRecords[j].submission_date > dateRange.end[1] * TicksPerDay

\* the instant a date text stands for: midnight UTC of its day
AtOrAfter(ts, text) == Len(text) = 1 /\ ts >= text[1] * TicksPerDay
AtOrBefore(ts, text) == Len(text) = 1 /\ ts <= text[1] * TicksPerDay

\* C4: without an exact date, a record is shown iff its instant is not before
\* the start, when one is given, and not after the end, when one is given.
C4_RangePredicate ==
  (dateFilter = <<>> /\ searchTerm = <<>> /\ filterType = "all" /\ campusFilter = ALL) =>
    \A i \in 1..Len(records) :
      InView(records[i]) <=>
        /\ dateRange.start = <<>> \/ AtOrAfter(records[i].submission_date, dateRange.start)
        /\ dateRange.end = <<>> \/ AtOrBefore(records[i].submission_date, dateRange.end)

\* both bounds are given; a record past the end is left out, a record inside
\* is shown
C4_Witness ==
  /\ dateFilter = <<>>
  /\ Len(dateRange.start) = 1
  /\ Len(dateRange.end) = 1
  /\ \E i \in 1..Len(records) :
       /\ records[i].submission_date > dateRange.end[1] * TicksPerDay
       /\ ~InView(records[i])
  /\ filteredAndSortedRecords # <<>>

\* the calendar day of an instant in the browser's time zone
LocalDay(ts) == (ts + tz) \div TicksPerDay

\* C5: with an exact date set, a record is shown iff the calendar day of its
\* submission is the day of the filter.
C5_ExactDateIsCalendarDay ==
  (dateFilter # <<>> /\ searchTerm = <<>> /\ filterType = "all" /\ campusFilter = ALL) =>
    \A i \in 1..Len(records) :
      InView(records[i]) <=>
        (Len(dateFilter) = 1 /\ LocalDay(records[i].submission_date) = dateFilter[1])

IsMalformed(text) == Len(text) > 1

\* C6 as stated: a malformed exact date, range start or range end leaves no
\* record passing the date predicate.
C6_AnyMalformedInput ==
  (IsMalformed(dateFilter) \/ IsMalformed(dateRange.start) \/ IsMalformed(dateRange.end)) =>
    \A i \in 1..Len(records) :
      ~matchesDate(records[i], dateFilter, dateRange, tz) /\ ~InView(records[i])

\* C6 amended: a malformed exact date, or, with no exact date set, a
\* malformed range bound, leaves no record passing the date predicate.
C6_MalformedInputInUse ==
  (\/ IsMalformed(dateFilter)
   \/ (dateFilter = <<>> /\ (IsMalformed(dateRange.start) \/ IsMalformed(dateRange.end)))) =>
    \A i \in 1..Len(records) :
      ~matchesDate(records[i], dateFilter, dateRange, tz) /\ ~InView(records[i])

\* the range start alone is malformed and the view of a non-empty list is empty
C6_Witness ==
  /\ dateFilter = <<>>
  /\ IsMalformed(dateRange.start)
  /\ dateRange.end = <<>>
  /\ records # <<>>
  /\ filteredAndSortedRecords = <<>>

\* a is not behind b in the order of the key
KeyLeq(a, b, by) ==
  CASE by = "submission_date" -> a.submission_date <= b.submission_date
    [] by = "full_name" -> localeCompare(a.full_name, b.full_name) <= 0
    [] by = "campus" -> localeCompare(a.campus, b.campus) <= 0
    [] by = "thesis_title" -> localeCompare(a.thesis_title, b.thesis_title) <= 0
    [] by = "user_type" -> localeCompare(a.user_type, b.user_type) <= 0

\* C7: neighbours in the view are in the order of the sort key, rising when
\* ascending and falling when descending.
C7_ViewOrderedByKey ==
  /\ sortBy \in SortKeys
  /\ \A j \in 1..(Len(filteredAndSortedRecords) - 1) :
       IF sortOrder = "asc"
       THEN KeyLeq(filteredAndSortedRecords[j], filteredAndSortedRecords[j + 1], sortBy)
       ELSE KeyLeq(filteredAndSortedRecords[j + 1], filteredAndSortedRecords[j], sortBy)

\* full name ascending turns Zed, Amy into Amy, Zed
C7_Witness ==
  /\ sortBy = "full_name"
  /\ sortOrder = "asc"
  /\ records = <<Zed, Amy>>
  /\ filteredAndSortedRecords = <<Amy, Zed>>

\* the filters other than the category that are active
OtherFiltersActive ==
  (IF searchTerm # <<>> THEN 1 ELSE 0) + (IF campusFilter # ALL THEN 1 ELSE 0)
    + (IF dateFilter # <<>> THEN 1 ELSE 0) + (IF dateRangeSet THEN 1 ELSE 0)

\* the view of the held list under the term, campus and date filters alone
ViewWithoutCategory ==
  sort(SelectSeq(records,
                 LAMBDA r : /\ matchesSearch(r, searchTerm, searchField)
                            /\ matchesCampus(r, campusFilter)
                            /\ matchesDate(r, dateFilter, dateRange, tz)),
       sortBy, sortOrder)

\* C8: under category 'all' and one other filter the view is the view of
\* that filter alone.
C8_CategoryAllIsNeutral ==
  (filterType = "all" /\ OtherFiltersActive = 1) =>
    filteredAndSortedRecords = ViewWithoutCategory

\* category 'all' with a campus filter that keeps part of the list
C8_Witness ==
  /\ filterType = "all"
  /\ OtherFiltersActive = 1
  /\ campusFilter # ALL
  /\ filteredAndSortedRecords # <<>>
  /\ Len(filteredAndSortedRecords) < Len(records)

\* C10: no step of the browser changes the held record list.
C10_HeldListUntouched == [][records' = records]_vars

\* the view shows the whole list in another order than the list holds it
C10_Witness ==
  /\ Len(filteredAndSortedRecords) = Len(records)
  /\ filteredAndSortedRecords # records
  /\ records \in LoadedLists

\* String.prototype.split on a one-character separator
RECURSIVE split(_, _)
split(text, sep) ==
  IF \E i \in 1..Len(text) : text[i] = sep
  THEN LET i == CHOOSE k \in 1..Len(text) :
                  text[k] = sep /\ \A j \in 1..(k - 1) : text[j] # sep
       IN  <<SubSeq(text, 1, i - 1)>> \o split(SubSeq(text, i + 1, Len(text)), sep)
  ELSE <<text>>

HeaderRow ==
  <<"N","a","m","e",",","T","y","p","e",",","I","D","/","S","c","h","o","o","l",",",
    "C","a","m","p","u","s",",","P","r","o","g","r","a","m",",",
    "T","h","e","s","i","s"," ","T","i","t","l","e",",","D","a","t","e">>

\* the seven columns of a record, in the order of the header
Columns(r) ==
  << r.full_name, r.user_type, IdOrInstitution(r), r.campus, TextOf(r.program),
     r.thesis_title, toLocaleDateString(DateOfTimestamp(r.submission_date), tz) >>

IsQuoted(cell) == Len(cell) >= 2 /\ cell[1] = "\"" /\ cell[Len(cell)] = "\""

\* rows is the header row followed by one row of seven quoted cells for each
\* record of view, in the order of view
IsDocumentOf(rows, view) ==
  /\ Len(rows) = Len(view) + 1
  /\ rows[1] = HeaderRow
  /\ Len(split(rows[1], ",")) = 7
  /\ \A i \in 1..Len(view) :
       LET cells == split(rows[i + 1], ",")
       IN  /\ Len(cells) = 7
           /\ \A k \in 1..7 : IsQuoted(cells[k]) /\ cells[k] = quoted(Columns(view[i])[k])

\* C11: the document of a view of n records has n + 1 rows between its
\* newlines, the header of seven columns and then one row of seven quoted
\* fields for each record in the order of the view; for the empty view it is
\* the header alone; every file handed to the browser is such a document.
C11_DocumentHasHeaderAndOneRowPerRecord ==
  /\ IsDocumentOf(split(csvContent(filteredAndSortedRecords, tz), "\n"),
                  filteredAndSortedRecords)
  /\ filteredAndSortedRecords = <<>> =>
       csvContent(filteredAndSortedRecords, tz) = HeaderRow
  /\ download # <<>> =>
       \E held \in LoadedLists :
         \E view \in { sort(Keep(held, ids), by, order) :
                         ids \in SUBSET Ids(held), by \in SortKeys, order \in {"asc", "desc"} } :
           IsDocumentOf(split(download.content, "\n"), view)

\* a view of two records was exported as a file of three rows
C11_Witness ==
  /\ download # <<>>
  /\ Len(split(download.content, "\n")) = 3
  /\ Len(filteredAndSortedRecords) = 2
  /\ download.content = csvContent(filteredAndSortedRecords, tz)

\* C12: a step that hands a file to the browser writes the rows of the
\* current view and changes neither the held list, the criteria, the loading
\* flag, the table, nor the requests in flight.
C12_ExportOnlyRendersTheView ==
  [][download' # download =>
       /\ IsDocumentOf(split(download'.content, "\n"), filteredAndSortedRecords)
       /\ UNCHANGED <<browserVars, loading, table, loads, deletes, notifications>>]_vars

\* after an export of a filtered view the page is as it was before
C12_Witness ==
  /\ download # <<>>
  /\ download.content = csvContent(filteredAndSortedRecords, tz)
  /\ Len(filteredAndSortedRecords) < Len(records)
  /\ loads = <<>>
  /\ deletes = <<>>
  /\ ~loading

\* a step in which the waiting call loads[i] resumes and returns
Resumes(i) == loads[i].phase # "sent" /\ loads' = Remove(loads, i)

\* C15: when a failed load resumes, whether the answer carried an error or the
\* request threw, the held list keeps its value, the error toast is raised,
\* and the loading flag of the instance that called it is false; the call
\* returns and the page goes on.
C15_FailedLoadKeepsTheList ==
  [][\A i \in 1..Len(loads) :
       Resumes(i) /\ loads[i].phase \in {"error", "thrown"} =>
         /\ records' = records
         /\ filteredAndSortedRecords' = filteredAndSortedRecords
         /\ toast' = "Failed to fetch submission records"
         /\ (mounted /\ loads[i].standing # "orphaned" => loading' = FALSE)
         /\ mounted' = mounted]_vars

\* a refresh of a loaded list has failed
C15_Witness ==
  /\ mounted
  /\ toast = "Failed to fetch submission records"
  /\ records # <<>>
  /\ ~loading
  /\ loads = <<>>

\* C16: a step that delivers a change notification to the mounted view
\* starts one load of the whole table and leaves the held list as it is.
C16_NotificationStartsReload ==
  [][notifications' < notifications /\ mounted' =>
       /\ notifications' = notifications - 1
       /\ Len(loads') = Len(loads) + 1
       /\ loads'[Len(loads')] = [standing |-> "current", phase |-> "sent", data |-> <<>>]
       /\ loading'
       /\ records' = records]_vars

\* the table has lost a row, the notification was delivered, the re-load
\* waits, and the held list still shows the row
C16_Witness ==
  /\ mounted
  /\ notifications = 0
  /\ Len(loads) = 1
  /\ loads[1].phase = "sent"
  /\ records # <<>>
  /\ Ids(records) \ table # {}

\* C17: the result of a load that was superseded by a newer load, or whose
\* view has been torn down, changes neither the held list nor the loading
\* flag when it arrives.
C17_StaleResultDiscarded ==
  [][\A i \in 1..Len(loads) :
       Resumes(i) /\ loads[i].standing \in {"superseded", "orphaned"} =>
         /\ records' = records
         /\ loading' = loading]_vars

\* C18: a mounted view holds one subscription and a view off the page holds
\* none; a subscription is released only in the step that tears the view
\* down, and then exactly one.
C18_OneSubscriptionPerMountedView ==
  /\ subscriptions = (IF mounted THEN 1 ELSE 0)
  /\ [][/\ subscriptions' = (IF mounted' THEN 1 ELSE 0)
        /\ subscriptions' < subscriptions =>
             mounted /\ ~mounted' /\ subscriptions' = subscriptions - 1
        /\ subscriptions' > subscriptions =>
             ~mounted /\ mounted' /\ subscriptions' = subscriptions + 1]_vars

\* the view was torn down while its load waited, and its channel is gone
C18_Witness ==
  /\ ~mounted
  /\ subscriptions = 0
  /\ loads # <<>>
  /\ loads[1].standing = "orphaned"

\* C13: a Reader is never asked to confirm a delete and never has a delete
\* in flight; the step that raises the Access Restricted toast happens to a
\* Reader only, and it starts no load, sends no delete, and leaves the held
\* list, the view, the table and the loading flag as they are.
C13_ReaderDeleteIsRejected ==
  /\ [](userRole = "Reader" => dialog = <<>> /\ deletes = <<>>)
  /\ [][toast' = "Access Restricted" /\ toast # "Access Restricted" =>
          /\ userRole = "Reader"
          /\ UNCHANGED <<browserVars, loading, table, loads, notifications, dialog,
                         deletes>>]_vars

\* a Reader has tried to delete a row and the row is still held and stored
C13_Witness ==
  /\ userRole = "Reader"
  /\ toast = "Access Restricted"
  /\ records # <<>>
  /\ table = Ids(records)
  /\ dialog = <<>>
  /\ deletes = <<>>
  /\ loads = <<>>

\* a step in which a delete request for a record, or for a system user, leaves
RecordDeleteSent == Len(deletes') = Len(deletes) + 1
UserDeleteSent ==
  /\ Len(userCalls') = Len(userCalls) + 1
  /\ userCalls'[Len(userCalls')].op = "delete"

\* C14: a delete request leaves only in the step that closes the confirm
\* dialog opened for the same row; a step that closes the dialog without
\* sending the request changes nothing else.
C14_DeleteOnlyAfterConfirmation ==
  [][/\ RecordDeleteSent =>
          /\ dialog = <<"record", deletes'[Len(deletes')].id>>
          /\ dialog' = <<>>
     /\ UserDeleteSent =>
          /\ dialog = <<"user", userCalls'[Len(userCalls')].id>>
          /\ dialog' = <<>>
     /\ dialog # <<>> /\ dialog' = <<>> /\ ~RecordDeleteSent /\ ~UserDeleteSent =>
          UNCHANGED <<browserVars, mounted, loading, userRole, table, loads,
                      notifications, subscriptions, toast, deletes, download,
                      restVars>>]_vars

\* a confirmed delete of a record and a confirmed delete of a system user wait
\* for the store
C14_Witness ==
  /\ dialog = <<>>
  /\ \E i \in 1..Len(deletes) : deletes[i].phase = "sent"
  /\ \E i \in 1..Len(userCalls) : userCalls[i].op = "delete" /\ userCalls[i].phase = "sent"

Failed(call) == call.phase \in {"error", "thrown"}

\* C19: whenever a call to the store has failed (the load of the records, the
\* delete of a record, the insert of a submission, a query of the role
\* lookup), the step in which its handler resumes raises the toast of that
\* failure.
C19_EveryFailureIsNotified ==
  [][/\ \A i \in 1..Len(loads) :
          Failed(loads[i]) /\ loads' = Remove(loads, i) =>
            toast' = "Failed to fetch submission records"
     /\ \A i \in 1..Len(deletes) :
          Failed(deletes[i]) /\ deletes' = Remove(deletes, i) =>
            toast' = "Failed to delete record"
     /\ \A i \in 1..Len(inserts) :
          Failed(inserts[i]) /\ inserts' = Remove(inserts, i) =>
            toast' = "Submission Failed"
     /\ (roleCall # <<>> /\ Failed(roleCall) /\ roleCall' # roleCall) =>
          toast' = "Failed to fetch user permissions"]_vars

\* the Active rows of system_users of the signed-in user
ActiveRowsOfUser ==
  { row \in systemUsers : row.user_id = user /\ row.status = "Active" }

\* a step in which the role lookup returns
LookupReturns == roleCall # <<>> /\ roleCall' = <<>>

C21_AdminOnlyContentNeedsAdmin ==
  /\ usersMounted =>
        Screen = "Dashboard" /\ userRole = "Admin" /\ activeTab = "users"
  /\ Screen = "Dashboard" =>
        /\ renderContent(userRole, activeTab) \in {"ThesisData", "SystemUsers"} =>
              userRole = "Admin"
        /\ userRole # "Admin" =>
              /\ availableTabs \cap AdminOnly = {}
              /\ activeTab \in AdminOnly =>
                    /\ renderContent(userRole, activeTab) = "Access Restricted"
                    /\ ~usersMounted

\* a Reader stands on the System Users tab and sees Access Restricted
C21_Witness ==
  /\ Screen = "Dashboard"
  /\ userRole = "Reader"
  /\ activeTab = "users"
  /\ ~usersMounted
  /\ renderContent(userRole, activeTab) = "Access Restricted"

\* C24: a delete request for a record leaves, and the confirm dialog for a
\* record is open, only while the dashboard is shown and the role is Admin;
\* the records browser is on the page only when the role is known.
C24_RecordDeleteNeedsAdmin ==
  /\ [](mounted => Screen = "Dashboard")
  /\ [](dialog # <<>> => userRole = "Admin" /\ Screen = "Dashboard")
  /\ [][RecordDeleteSent => userRole = "Admin" /\ Screen = "Dashboard"]_vars

\* the delete an Admin has confirmed on the User Records tab waits for the store
C24_Witness ==
  /\ mounted
  /\ userRole = "Admin"
  /\ activeTab = "records"
  /\ \E i \in 1..Len(deletes) :
        deletes[i].phase = "sent" /\ deletes[i].standing # "orphaned"

\* C29: a known role other than Admin on an Admin-only tab leads to the tab
\* Statistics; a run of the redirect effect changes the tab only from an
\* Admin-only tab to Statistics under a known role other than Admin.
C29_RedirectsToStatistics ==
  /\ (userRole \notin {"null", "Admin"} /\ activeTab \in AdminOnly)
        ~> (activeTab = "statistics")
  /\ [][(tabEffect /\ ~tabEffect' /\ activeTab' # activeTab) =>
          /\ userRole \notin {"null", "Admin"}
          /\ activeTab \in AdminOnly
          /\ activeTab' = "statistics"]_vars

\* a Reader stands on the Thesis Data tab and the effect is about to run
C29_Witness ==
  /\ userRole = "Reader"
  /\ activeTab = "thesis"
  /\ tabEffect

Present(value) == value # null /\ value # <<>>

\* C22: every row the form sends is of one of the two categories; a row of
\* an LPU student carries a student number and a program and no school, a row
\* of a non-LPU student carries a school and neither a student number nor a
\* program, whatever formData holds in the inputs of the other category.
C22_RowFitsItsCategory ==
  \A i \in 1..Len(inserts) :
    LET row == inserts[i].row
    IN  \/ /\ row.user_type = LPU_STUDENT
           /\ Present(row.student_number)
           /\ row.school = null
           /\ Present(row.program)
        \/ /\ row.user_type = NON_LPU_STUDENT
           /\ row.student_number = null
           /\ Present(row.school)
           /\ row.program = null

\* the store has accepted the row of a non-LPU student whose form still holds
\* the student number and the program entered before the category was switched
C22_Witness ==
  /\ userType = "non-lpu"
  /\ formData.studentNumber # <<>>
  /\ formData.program # <<>>
  /\ \E i \in 1..Len(inserts) :
        /\ inserts[i].phase = "ok"
        /\ inserts[i].row.user_type = NON_LPU_STUDENT
        /\ inserts[i].row.student_number = null

\* C23: an insert leaves only in a step that starts with every required input
\* of the category filled: full name, student number (LPU) or school
\* (non-LPU), campus, program (LPU) and thesis title; and the row it carries
\* has those fields.
C23_NoInsertWithMissingField ==
  [][Len(inserts') > Len(inserts) =>
       /\ formData.fullName # <<>>
       /\ formData.campus # <<>>
       /\ formData.thesisTitle # <<>>
       /\ IF userType = "lpu"
          THEN formData.studentNumber # <<>> /\ formData.program # <<>>
          ELSE formData.school # <<>>
       /\ LET row == inserts'[Len(inserts')].row
          IN  /\ Present(row.full_name)
              /\ Present(row.campus)
              /\ Present(row.thesis_title)]_vars

\* after a rejected insert the visitor has cleared the program, the one
\* required input now missing, and nothing is sent
C23_Witness ==
  /\ userType = "lpu"
  /\ toast = "Submission Failed"
  /\ formData.fullName # <<>>
  /\ formData.studentNumber # <<>>
  /\ formData.campus # <<>>
  /\ formData.thesisTitle # <<>>
  /\ formData.program = <<>>
  /\ inserts = <<>>
  /\ ~isSubmitting

\* C30: isSubmitting is true exactly while an insert of the form has left and
\* its handler has not resumed, and at most one insert is in flight.
C30_OneInsertWhileSubmitting ==
  /\ Len(inserts) <= 1
  /\ isSubmitting <=> Len(inserts) = 1

\* the visitor submits again after a success, while the modal is still shown
C30_Witness ==
  /\ isSubmitting
  /\ showSuccess
  /\ Len(inserts) = 1
  /\ inserts[1].phase = "sent"

\* C28: whenever no add is under way, the identity an add has created has
\* its row in system_users; and while the row insert has failed and the add
\* has finished, the identity is gone.
C28_AddIsAllOrNothing ==
  addCall = <<>> =>
    \A id \in authUsers : \E row \in systemUsers : row.user_id = id

\* C25: when the view is mounted and no load, delete or notification is in
\* flight, every load having succeeded, the held list is the content of the
\* table by submission_date descending.
C25_SettledListIsTheTable ==
  (mounted /\ loads = <<>> /\ deletes = <<>> /\ notifications = 0 /\ dialog = <<>>) =>
    records = Keep(TableDesc, table)

\* C26: while the view is mounted its loading flag is true exactly when one of
\* its loads is in flight.
C26_LoadingIffLoadInFlight ==
  mounted =>
    (loading <=> \E i \in 1..Len(loads) : loads[i].standing # "orphaned")

====
